---- MODULE Spec2Model ----
(***************************************************************************)
(* PriceCraft bulk import pipeline: column mapper, row validator,          *)
(* reconciler/committer and the import wizard that drives them.            *)
(* Strings are TLA+ strings; their characters are read with SubSeq.        *)
(***************************************************************************)
EXTENDS Integers, Sequences, FiniteSets, TLC

VARIABLES
    headers,      \* parsedCSV.headers (sequence of strings), column i is headers[i+1]
    rows,         \* parsedCSV.rows (sequence of sequences of strings)
    mapping,      \* ColumnMapping: function from a subset of the field keys to column indexes
    validation,   \* ValidationResult, or Null
    phase,        \* position of the harness: "loaded", "mapped", "validated"
    wizard,       \* the rest of ImportWizard's state: step, target, committing, ...
    roundingRule, \* the estimate's rounding_rule, handed to executeImport
    boqVersions,  \* table boq_versions: function from version id to version
    boqRows,      \* table boq_rows: function from row id to row
    nextId,       \* the next fresh id the database hands out
    importJobs,   \* table import_jobs, in creation order
    auditLogs,    \* table audit_logs, in creation order
    runs,         \* the executeImport invocations: function from caller to its local state
    history,      \* the outcomes of the executeImport invocations that ended, in order
    summary       \* SummaryTab: its rows, its add-on configuration and what it renders

vars == << headers, rows, mapping, validation, phase, wizard, roundingRule,
           boqVersions, boqRows, nextId, importJobs, auditLogs, runs, history, summary >>

storeVars == << roundingRule, boqVersions, boqRows, nextId, importJobs, auditLogs, runs, history >>

\* the state of the components
fileVars == << headers, rows, mapping, validation, phase, wizard, summary >>

\* null and undefined, where a record or a number may stand
Null == [null |-> TRUE]

\* the callers of executeImport (browser sessions)
Sessions == { 1, 2 }

NoRun == [pc |-> "idle"]

\* ImportWizard's state as useState initialises it and handleClose resets it
\* (lines 41-54): parsed tells whether parsedCSV is set, reading holds the
\* files a FileReader is reading
ClosedWizard ==
    [ step              |-> 0,
      target            |-> "new",
      existingVersionId |-> "",
      parsed            |-> FALSE,
      committing        |-> FALSE,
      result            |-> "none",
      reading           |-> {} ]

\* an empty database and no import under way
EmptyStore ==
    /\ summary = Null
    /\ wizard = ClosedWizard
    /\ roundingRule = 2
    /\ boqVersions = << >>
    /\ boqRows = << >>
    /\ nextId = 1
    /\ importJobs = << >>
    /\ auditLogs = << >>
    /\ runs = [ s \in Sessions |-> NoRun ]
    /\ history = << >>

(***************************************************************************)
(* String helpers (JavaScript String methods)                              *)
(***************************************************************************)
LowerChars == "abcdefghijklmnopqrstuvwxyz"
UpperChars == "ABCDEFGHIJKLMNOPQRSTUVWXYZ"
DigitChars == "0123456789"

CharAt(s, i) == SubSeq(s, i, i)

InChars(c, chars) == \E i \in 1..Len(chars) : CharAt(chars, i) = c

IndexIn(c, chars) == CHOOSE i \in 1..Len(chars) : CharAt(chars, i) = c

LowerChar(c) == IF InChars(c, UpperChars) THEN CharAt(LowerChars, IndexIn(c, UpperChars)) ELSE c

UpperChar(c) == IF InChars(c, LowerChars) THEN CharAt(UpperChars, IndexIn(c, LowerChars)) ELSE c

RECURSIVE toLowerCase(_)
toLowerCase(s) ==
    IF Len(s) = 0 THEN "" ELSE LowerChar(CharAt(s, 1)) \o toLowerCase(SubSeq(s, 2, Len(s)))

\* the string in the case it has
keepCase(s) == s

RECURSIVE toUpperCase(_)
toUpperCase(s) ==
    IF Len(s) = 0 THEN "" ELSE UpperChar(CharAt(s, 1)) \o toUpperCase(SubSeq(s, 2, Len(s)))

\* s.replace(/[^a-z0-9]/g, '')
RECURSIVE StripNonAlnum(_)
StripNonAlnum(s) ==
    IF Len(s) = 0 THEN ""
    ELSE (IF InChars(CharAt(s, 1), LowerChars) \/ InChars(CharAt(s, 1), DigitChars)
          THEN CharAt(s, 1) ELSE "") \o StripNonAlnum(SubSeq(s, 2, Len(s)))

IsSpace(c) == c = " " \/ c = "\t" \/ c = "\n" \/ c = "\r"

RECURSIVE trimStart(_)
trimStart(s) ==
    IF Len(s) > 0 /\ IsSpace(CharAt(s, 1)) THEN trimStart(SubSeq(s, 2, Len(s))) ELSE s

RECURSIVE trimEnd(_)
trimEnd(s) ==
    IF Len(s) > 0 /\ IsSpace(CharAt(s, Len(s))) THEN trimEnd(SubSeq(s, 1, Len(s) - 1)) ELSE s

trim(s) == trimEnd(trimStart(s))

(***************************************************************************)
(* Column mapper (src/lib/column-mapper.ts)                                *)
(***************************************************************************)
BOQ_FIELDS ==
    << "row_type", "external_key", "section", "description", "uom", "qty", "rate",
       "amount", "category", "measurement", "assumptions", "action" >>

BoQField == { BOQ_FIELDS[k] : k \in 1..Len(BOQ_FIELDS) }

ALIASES ==
    [
       row_type |-> << "row_type", "rowtype", "type", "row type", "line type" >>,
       external_key |-> << "external_key", "externalkey", "external key", "ext_key", "ref", "reference", "ref_id", "external id" >>,
       section |-> << "section", "section name", "group", "category group" >>,
       description |-> << "description", "desc", "item description", "item", "item name", "line description", "scope", "work item" >>,
       uom |-> << "uom", "unit", "unit of measure", "units", "unit of measurement", "measure" >>,
       qty |-> << "qty", "quantity", "amount qty", "no", "count", "number" >>,
       rate |-> << "rate", "unit rate", "unit price", "price", "cost", "unit cost" >>,
       amount |-> << "amount", "total", "total amount", "line total", "line amount", "sum", "value" >>,
       category |-> << "category", "cost category", "type category", "classification", "cost type", "trade" >>,
       measurement |-> << "measurement", "measurements", "measurement notes", "measure notes", "dimensions" >>,
       assumptions |-> << "assumptions", "assumption", "notes", "remarks", "comments", "clarifications" >>,
       action |-> << "action", "operation", "op", "crud", "import action" >>
    ]

normalize(s) == StripNonAlnum(toLowerCase(s))

\* ALIASES[field.key].map(normalize), as a set (only membership is used)
NormalizedAliases ==
    [ field \in BoQField |-> { normalize(ALIASES[field][k]) : k \in 1..Len(ALIASES[field]) } ]

\* a loop without the break: the last free matching column wins
RECURSIVE LastFreeMatch(_, _, _, _)
LastFreeMatch(hs, aliases, used, i) ==
    IF i >= Len(hs) THEN -1
    ELSE LET later == LastFreeMatch(hs, aliases, used, i + 1)
         IN  IF later # -1 THEN later
             ELSE IF i \notin used /\ normalize(hs[i + 1]) \in aliases THEN i ELSE -1

\* the inner loop of autoMapColumns from column i on: the first column that is
\* not used and whose normalized header is an alias, or -1 when the loop ends
RECURSIVE FirstFreeMatch(_, _, _, _)
FirstFreeMatch(hs, aliases, used, i) ==
    IF i >= Len(hs) THEN -1
    ELSE IF i \in used THEN FirstFreeMatch(hs, aliases, used, i + 1)
    ELSE IF normalize(hs[i + 1]) \in aliases THEN i
    ELSE FirstFreeMatch(hs, aliases, used, i + 1)

\* the outer loop of autoMapColumns from field k on
RECURSIVE MapFrom(_, _, _, _)
MapFrom(hs, k, m, used) ==
    IF k > Len(BOQ_FIELDS) THEN m
    ELSE LET field == BOQ_FIELDS[k]
             i == FirstFreeMatch(hs, NormalizedAliases[field], used, 0)
         IN  IF i = -1 THEN MapFrom(hs, k + 1, m, used)
             ELSE MapFrom(hs, k + 1, m @@ (field :> i), used \cup {i})

EmptyMapping == << >>

autoMapColumns(hs) == MapFrom(hs, 1, EmptyMapping, {})

(***************************************************************************)
(* Harness of the column mapper: a header list is drawn, then mapped       *)
(***************************************************************************)
MaxHeaders == 3

HeaderPool ==
    { "Row Type", "TYPE", "Description", "Qty", "Quantity", "unit_rate", "Measure", "Foo", "" }

HeaderLists == UNION { [1..n -> HeaderPool] : n \in 0..MaxHeaders }

MapperInit ==
    /\ headers \in HeaderLists
    /\ rows = << >>
    /\ mapping = EmptyMapping
    /\ validation = Null
    /\ phase = "loaded"
    /\ EmptyStore

AutoMap ==
    /\ phase = "loaded"
    /\ mapping' = autoMapColumns(headers)
    /\ phase' = "mapped"
    /\ UNCHANGED << headers, rows, validation, wizard, summary >>
    /\ UNCHANGED storeVars

MapperNext == AutoMap

MapperSpec == MapperInit /\ [][MapperNext]_vars

\* the columns claimed by the fields that come before BOQ_FIELDS[k]
ClaimedBefore(k) ==
    { mapping[BOQ_FIELDS[j]] : j \in { j \in 1..(k - 1) : BOQ_FIELDS[j] \in DOMAIN mapping } }

\* the columns field BOQ_FIELDS[k] may take: not claimed before, header an alias
Candidates(k) ==
    { i \in 0..(Len(headers) - 1) :
        /\ i \notin ClaimedBefore(k)
        /\ normalize(headers[i + 1]) \in NormalizedAliases[BOQ_FIELDS[k]] }

\* C1: the mapping autoMapColumns returns assigns no column index to two
\* fields, and gives each field, in BOQ_FIELDS order, the first header not
\* claimed by an earlier field whose normalized text is one of its aliases
\* (no such header: the field stays unmapped).
C1_GreedyInjectiveMapping ==
    phase = "mapped" =>
        /\ DOMAIN mapping \subseteq BoQField
        /\ \A f, g \in DOMAIN mapping : f # g => mapping[f] # mapping[g]
        /\ \A k \in 1..Len(BOQ_FIELDS) :
              IF Candidates(k) = {}
              THEN BOQ_FIELDS[k] \notin DOMAIN mapping
              ELSE /\ BOQ_FIELDS[k] \in DOMAIN mapping
                   /\ mapping[BOQ_FIELDS[k]] \in Candidates(k)
                   /\ \A i \in Candidates(k) : mapping[BOQ_FIELDS[k]] <= i

\* two headers match one field: the first is taken, the second stays unclaimed
C1_Witness ==
    /\ phase = "mapped"
    /\ Cardinality(DOMAIN mapping) >= 2
    /\ \E f \in DOMAIN mapping : \E i \in 0..(Len(headers) - 1) :
          /\ i > mapping[f]
          /\ normalize(headers[i + 1]) \in NormalizedAliases[f]
          /\ \A g \in DOMAIN mapping : mapping[g] # i

(***************************************************************************)
(* Numbers.  A JavaScript number that a decimal literal denotes is kept    *)
(* exactly, as num / 10^dec with no trailing zero in the fraction.  The    *)
(* literals of the input pools are dyadic (halves, quarters), so that the  *)
(* doubles the program computes with hold exactly these values.            *)
(***************************************************************************)
NaN == [nan |-> TRUE]

RECURSIVE Pow10(_)
Pow10(n) == IF n <= 0 THEN 1 ELSE 10 * Pow10(n - 1)

RECURSIVE Normalized(_, _)
Normalized(n, d) ==
    IF d > 0 /\ n % 10 = 0 THEN Normalized(n \div 10, d - 1) ELSE [num |-> n, dec |-> d]

Num(n, d) == Normalized(n, d)

IsDigit(c) == InChars(c, DigitChars)

\* the first position from i on that holds no digit
RECURSIVE DigitsEnd(_, _)
DigitsEnd(s, i) == IF i <= Len(s) /\ IsDigit(CharAt(s, i)) THEN DigitsEnd(s, i + 1) ELSE i

RECURSIVE DigitsValue(_)
DigitsValue(s) ==
    IF Len(s) = 0 THEN 0
    ELSE 10 * DigitsValue(SubSeq(s, 1, Len(s) - 1)) + (IndexIn(CharAt(s, Len(s)), DigitChars) - 1)

\* the value of the literal whose integer part is s[p0..p1-1], fraction
\* s[p1+1..p2-1] and exponent digits s[e0..e1-1] (none when e1 <= e0)
LiteralValue(s, neg, mant, fracLen, exp) ==
    IF fracLen - exp < 0
    THEN [num |-> (IF neg THEN -1 ELSE 1) * mant * Pow10(exp - fracLen), dec |-> 0]
    ELSE [num |-> (IF neg THEN -1 ELSE 1) * Num(mant, fracLen - exp).num,
          dec |-> Num(mant, fracLen - exp).dec]

\* the exponent part from position p2 on: e or E, an optional sign, digits
ExponentAt(s, p2, e0, e1) ==
    IF ~(p2 <= Len(s) /\ (CharAt(s, p2) = "e" \/ CharAt(s, p2) = "E")) \/ e1 <= e0 THEN 0
    ELSE IF CharAt(s, p2 + 1) = "-" THEN 0 - DigitsValue(SubSeq(s, e0, e1 - 1))
    ELSE DigitsValue(SubSeq(s, e0, e1 - 1))

ExponentStart(s, p2) ==
    IF p2 + 1 <= Len(s) /\ (CharAt(s, p2 + 1) = "-" \/ CharAt(s, p2 + 1) = "+")
    THEN p2 + 2 ELSE p2 + 1

ParseFrom3(s, p0, p1, p2, e0) ==
    IF p1 = p0 /\ p2 <= p1 + 1 THEN NaN
    ELSE LiteralValue(s, CharAt(s, 1) = "-",
                      DigitsValue(SubSeq(s, p0, p1 - 1) \o SubSeq(s, p1 + 1, p2 - 1)),
                      IF p2 > p1 THEN p2 - p1 - 1 ELSE 0,
                      ExponentAt(s, p2, e0, DigitsEnd(s, e0)))

ParseFrom2(s, p0, p1, p2) == ParseFrom3(s, p0, p1, p2, ExponentStart(s, p2))

ParseFrom1(s, p0, p1) ==
    ParseFrom2(s, p0, p1,
               IF p1 <= Len(s) /\ CharAt(s, p1) = "." THEN DigitsEnd(s, p1 + 1) ELSE p1)

ParseFrom0(s, p0) == ParseFrom1(s, p0, DigitsEnd(s, p0))

\* parseFloat: the value of the longest prefix that is a decimal literal
\* (sign, digits, fraction, exponent) after leading white space; NaN when
\* there is none.  The literal Infinity is not modelled: no input of the
\* pools spells it.
parseFloat(str) ==
    ParseFrom0(trimStart(str),
               IF Len(trimStart(str)) > 0
                  /\ (CharAt(trimStart(str), 1) = "-" \/ CharAt(trimStart(str), 1) = "+")
               THEN 2 ELSE 1)

isNaN(x) == x = NaN

(***************************************************************************)
(* Row validator (src/lib/import-validator.ts)                             *)
(***************************************************************************)
MAX_ROWS == 2000

VALID_ROW_TYPES == { "LineItem", "SectionHeader" }

FALLBACK_CATEGORIES == { "Prelims", "Labour", "Material", "Equipment", "Subcon", "Other" }

VALID_CATEGORIES == FALLBACK_CATEGORIES

\* a ValidationIssue without its message text
Issue(i, field, severity) == [rowIndex |-> i, field |-> field, severity |-> severity]

\* the cell read without trim()
getMappedValueUntrimmed(csvRow, m, field) ==
    IF field \notin DOMAIN m THEN ""
    ELSE IF m[field] = -1 THEN ""
    ELSE IF m[field] + 1 \in DOMAIN csvRow THEN csvRow[m[field] + 1]
    ELSE ""

getMappedValue(csvRow, m, field) ==
    IF field \notin DOMAIN m THEN ""
    ELSE IF m[field] = -1 THEN ""
    ELSE IF m[field] + 1 \in DOMAIN csvRow THEN trim(csvRow[m[field] + 1])
    ELSE ""


IF_(c, x) == IF c THEN << x >> ELSE << >>

\* the check left out: a DELETE row needs no key
DeleteWithoutKeyUnchecked(action, externalKey) == FALSE

\* action === 'DELETE' && !externalKey
DeleteWithoutKey(action, externalKey) == action = "DELETE" /\ externalKey = ""

\* the value of a section header's field kept as the row gives it
KeptForHeader(rowType, value, empty) == value

\* lines 196-199: a field that a section header does not carry
UnlessHeader(rowType, value, empty) ==
    IF rowType = "SectionHeader" THEN empty ELSE value

\* the loop body of validateImportRows from line 87 on, for row i (0-based)
\* with its cells read: the errors and warnings it pushes, and the row it
\* pushes (at most one)
CheckRow(i, rawRowType, rawAction, description, uom, rawQty, rawRate, rawCategory, rawAmount, externalKey, section, measurement, assumptions, parsedQty, parsedRate) ==
    LET rowType    == IF rawRowType = "" THEN "LineItem" ELSE rawRowType
        action     == IF rawAction = "DELETE" THEN "DELETE" ELSE "UPSERT"
        qtyBad     == rowType = "LineItem" /\ rawQty # ""
                      /\ (isNaN(parsedQty) \/ parsedQty.num < 0)
        rateBad    == rowType = "LineItem" /\ rawRate # ""
                      /\ (isNaN(parsedRate) \/ parsedRate.num < 0)
        catUnknown == rowType = "LineItem" /\ rawCategory # ""
                      /\ rawCategory \notin VALID_CATEGORIES
        errs       == IF_(rowType \notin VALID_ROW_TYPES, Issue(i, "row_type", "error"))
                      \o IF_(description = "", Issue(i, "description", "error"))
                      \o IF_(DeleteWithoutKey(action, externalKey), Issue(i, "action", "error"))
                      \o IF_(rowType = "LineItem" /\ uom = "" /\ action # "DELETE",
                             Issue(i, "uom", "error"))
                      \o IF_(qtyBad, Issue(i, "qty", "error"))
                      \o IF_(rateBad, Issue(i, "rate", "error"))
        warns      == IF_(catUnknown, Issue(i, "category", "warning"))
                      \o IF_(rawAmount # "", Issue(i, "amount", "warning"))
        vrow       == [ rowIndex     |-> i,
                        action       |-> action,
                        row_type     |-> rowType,
                        external_key |-> externalKey,
                        section      |-> section,
                        description  |-> description,
                        uom          |-> UnlessHeader(rowType, uom, ""),
                        qty          |-> UnlessHeader(rowType,
                                             IF rowType = "LineItem" /\ rawQty # "" /\ ~qtyBad
                                             THEN parsedQty ELSE Null, Null),
                        rate         |-> UnlessHeader(rowType,
                                             IF rowType = "LineItem" /\ rawRate # "" /\ ~rateBad
                                             THEN parsedRate ELSE Null, Null),
                        category     |-> UnlessHeader(rowType,
                                             IF catUnknown THEN "Other" ELSE rawCategory, ""),
                        measurement  |-> measurement,
                        assumptions  |-> assumptions ]
    IN  [ errors   |-> errs,
          warnings |-> warns,
          valid    |-> IF errs = << >> THEN << vrow >> ELSE << >> ]

\* one pass of the loop body of validateImportRows, for row i (0-based)
ValidateRow(csvRow, m, i) ==
    CheckRow(i,
             getMappedValue(csvRow, m, "row_type"),
             toUpperCase(getMappedValue(csvRow, m, "action")),
             getMappedValue(csvRow, m, "description"),
             getMappedValue(csvRow, m, "uom"),
             getMappedValue(csvRow, m, "qty"),
             getMappedValue(csvRow, m, "rate"),
             getMappedValue(csvRow, m, "category"),
             getMappedValue(csvRow, m, "amount"),
             getMappedValue(csvRow, m, "external_key"),
             getMappedValue(csvRow, m, "section"),
             getMappedValue(csvRow, m, "measurement"),
             getMappedValue(csvRow, m, "assumptions"),
             parseFloat(getMappedValue(csvRow, m, "qty")),
             parseFloat(getMappedValue(csvRow, m, "rate")))

\* the concatenation of part[lo], ..., part[hi], by halves
RECURSIVE Concat(_, _, _)
Concat(part, lo, hi) ==
    IF lo > hi THEN << >>
    ELSE IF lo = hi THEN part[lo]
    ELSE LET mid == (lo + hi) \div 2
         IN  Concat(part, lo, mid) \o Concat(part, mid + 1, hi)

\* what the loop leaves in validRows, errors and warnings, given the result
\* of each pass
Collect(res) ==
    [ validRows       |-> Concat([ k \in DOMAIN res |-> res[k].valid ], 1, Len(res)),
      errors          |-> Concat([ k \in DOMAIN res |-> res[k].errors ], 1, Len(res)),
      warnings        |-> Concat([ k \in DOMAIN res |-> res[k].warnings ], 1, Len(res)),
      totalParsedRows |-> Len(res) ]

\* the loop of validateImportRows over all rows
ValidateAll(csvRows, m) ==
    Collect([ k \in 1..Len(csvRows) |-> ValidateRow(csvRows[k], m, k - 1) ])

\* the size check left out
validateImportRowsUnlimited(csvRows, m) == ValidateAll(csvRows, m)

validateImportRows(csvRows, m) ==
    IF Len(csvRows) > MAX_ROWS
    THEN [ validRows       |-> << >>,
           errors          |-> << Issue(-1, "", "error") >>,
           warnings        |-> << >>,
           totalParsedRows |-> Len(csvRows) ]
    ELSE ValidateAll(csvRows, m)

(***************************************************************************)
(* Harness of the row validator: a table and a mapping are drawn, then     *)
(* validated.  A row has its cells in BOQ_FIELDS order.                    *)
(***************************************************************************)
FieldColumn(field) == (CHOOSE k \in 1..Len(BOQ_FIELDS) : BOQ_FIELDS[k] = field) - 1

FullMapping == [ field \in BoQField |-> FieldColumn(field) ]

Without(m, field) == [ f \in DOMAIN m \ {field} |-> m[f] ]

MappingPool ==
    { FullMapping,
      Without(FullMapping, "description"),
      [ FullMapping EXCEPT !["description"] = -1 ],
      [ FullMapping EXCEPT !["description"] = Len(BOQ_FIELDS) ],
      Without(Without(FullMapping, "action"), "external_key") }

Row(rt, key, desc, uom, qty, rate, amount, cat, act) ==
    << rt, key, "Civil", desc, uom, qty, rate, amount, cat, "", "", act >>

\* (qty, rate, amount, category) cells
NumericCells ==
    { << "", "", "", "" >>, << "10", "2.5", "", "Labour" >>,
      << "-1", "2.5", "99", "Misc" >>, << "12abc", "abc", "", "" >>,
      << "12abc", "2.5", "", "" >> }

OneRowPool ==
    { Row(rt, key, desc, uom, n[1], n[2], n[3], n[4], act) :
        rt \in { "", "LineItem", "SectionHeader", "Header" },
        key \in { "", "K1" },
        desc \in { "", "  ", "Dig" },
        uom \in { "", "m" },
        n \in NumericCells,
        act \in { "", "delete", "DELETE ", "remove" } }

GoodRow == Row("LineItem", "K1", "Dig", "m", "10", "2.5", "", "Labour", "")
NoDescRow == Row("SectionHeader", "K1", " ", "", "", "", "", "", "")
DeleteNoKeyRow == Row("", " ", "Dig", "", "", "", "", "", "delete")
HeaderRow == Row("SectionHeader", "", "Civil works", "m", "10", "2.5", "99", "Labour", "")

FewRowPool == { GoodRow, NoDescRow, DeleteNoKeyRow, HeaderRow }

MaxValidatorRows == 2

FewRowTables == UNION { [1..n -> FewRowPool] : n \in 0..MaxValidatorRows }

\* tables at the row limit and just over it
BigTables ==
    { [ k \in 1..n |-> r ] : n \in { MAX_ROWS, MAX_ROWS + 1 },
                             r \in { GoodRow, NoDescRow, DeleteNoKeyRow } }

ValidatorInit ==
    /\ headers = BOQ_FIELDS
    /\ \/ /\ rows \in { << r >> : r \in OneRowPool } \cup FewRowTables
          /\ mapping \in MappingPool
       \/ /\ rows \in BigTables
          /\ mapping = FullMapping
    /\ validation = Null
    /\ phase = "loaded"
    /\ EmptyStore

Validate ==
    /\ phase = "loaded"
    /\ validation' = validateImportRows(rows, mapping)
    /\ phase' = "validated"
    /\ UNCHANGED << headers, rows, mapping, wizard, summary >>
    /\ UNCHANGED storeVars

ValidatorNext == Validate

ValidatorSpec == ValidatorInit /\ [][ValidatorNext]_vars

ValidIndexes == { validation.validRows[k].rowIndex : k \in 1..Len(validation.validRows) }

ErrorIndexes == { validation.errors[k].rowIndex : k \in 1..Len(validation.errors) }

\* C2: an input of more than 2000 rows gets no valid row, exactly one error
\* (the size error, tied to no row), no warning and totalParsedRows = the row
\* count; an input of at most 2000 rows is validated row by row: every row is
\* either in validRows or has an error of its own, and there is no size error.
C2_SizeLimitShortCircuit ==
    phase = "validated" =>
        IF Len(rows) > 2000
        THEN validation = [ validRows |-> << >>, errors |-> << Issue(-1, "", "error") >>,
                            warnings |-> << >>, totalParsedRows |-> Len(rows) ]
        ELSE /\ validation.totalParsedRows = Len(rows)
             /\ ValidIndexes \cup ErrorIndexes = 0..(Len(rows) - 1)
             /\ ValidIndexes \cap ErrorIndexes = {}

\* both sides of the limit, with rows that would pass and rows that would not
C2_Witness ==
    /\ phase = "validated"
    /\ Len(rows) = 2001
    /\ rows[1] = GoodRow
    /\ validation.validRows = << >>

IsBlank(s) == \A k \in 1..Len(s) : IsSpace(CharAt(s, k))

\* the cell of a field reads as empty: unmapped, missing, or whitespace only
ReadsEmpty(csvRow, m, field) ==
    \/ field \notin DOMAIN m
    \/ m[field] = -1
    \/ m[field] + 1 \notin DOMAIN csvRow
    \/ IsBlank(csvRow[m[field] + 1])

RowRejected(i) == i \notin ValidIndexes /\ i \in ErrorIndexes

\* C3 as stated: every row with an empty description is left out of validRows
\* and has an error of its own, whatever the input.
C3_EmptyDescriptionRejected_AnyInput ==
    phase = "validated" =>
        \A i \in 0..(Len(rows) - 1) :
            ReadsEmpty(rows[i + 1], mapping, "description") => RowRejected(i)

\* C3 (amended): in an input of at most 2000 rows, every row with an empty
\* description is left out of validRows and has an error with its rowIndex;
\* in a larger input the row is left out too, and the only error is the size
\* error.
C3_EmptyDescriptionRejected ==
    phase = "validated" =>
        \A i \in 0..(Len(rows) - 1) :
            ReadsEmpty(rows[i + 1], mapping, "description") =>
                /\ i \notin ValidIndexes
                /\ IF Len(rows) <= 2000 THEN i \in ErrorIndexes ELSE ErrorIndexes = {-1}

\* a SectionHeader row and a DELETE row with blank descriptions, rejected
C3_Witness ==
    /\ phase = "validated"
    /\ Len(rows) = 1
    /\ "description" \in DOMAIN mapping /\ mapping["description"] = 3
    /\ rows[1][4] = "  "
    /\ rows[1][1] = "SectionHeader"
    /\ rows[1][12] = "delete"
    /\ RowRejected(0)

ReadsDelete(csvRow, m) ==
    /\ ~ReadsEmpty(csvRow, m, "action")
    /\ toUpperCase(trim(csvRow[m["action"] + 1])) = "DELETE"

\* C4 as stated: every DELETE row without a key has an error of its own and
\* is left out of validRows, whatever the input.
C4_DeleteNeedsKey_AnyInput ==
    phase = "validated" =>
        \A i \in 0..(Len(rows) - 1) :
            (ReadsDelete(rows[i + 1], mapping) /\ ReadsEmpty(rows[i + 1], mapping, "external_key"))
                => RowRejected(i)

\* C4 (amended): in an input of at most 2000 rows, every DELETE row whose
\* external_key is empty has an error with its rowIndex and is left out of
\* validRows (in a larger input it is left out too, under the size error
\* alone); every DELETE row in validRows has a non-empty external_key.
C4_DeleteNeedsKey ==
    phase = "validated" =>
        /\ \A i \in 0..(Len(rows) - 1) :
             (ReadsDelete(rows[i + 1], mapping) /\ ReadsEmpty(rows[i + 1], mapping, "external_key"))
                 => /\ i \notin ValidIndexes
                    /\ IF Len(rows) <= 2000 THEN i \in ErrorIndexes ELSE ErrorIndexes = {-1}
        /\ \A k \in 1..Len(validation.validRows) :
             validation.validRows[k].action = "DELETE" => validation.validRows[k].external_key # ""

\* a DELETE row without a key whose only error is the missing key
C4_Witness ==
    /\ phase = "validated"
    /\ Len(rows) = 2
    /\ ReadsDelete(rows[1], mapping) /\ ReadsEmpty(rows[1], mapping, "external_key")
    /\ validation.errors = << Issue(0, "action", "error") >>

(***************************************************************************)
(* Calculation engine (src/lib/database.ts)                                *)
(***************************************************************************)
Times(a, b) == Num(a.num * b.num, a.dec + b.dec)

\* the integer nearest to n / 10^k for n >= 0 and k >= 1, the larger of two
\* nearest ones (Number.prototype.toFixed, step 10.a)
RoundedDiv(n, k) == (n + 5 * Pow10(k - 1)) \div Pow10(k)

\* Number(x.toFixed(digits))
toFixed(x, digits) ==
    IF x.dec <= digits THEN x
    ELSE IF x.num >= 0 THEN Num(RoundedDiv(x.num, x.dec - digits), digits)
    ELSE [ num |-> 0 - Num(RoundedDiv(0 - x.num, x.dec - digits), digits).num,
           dec |-> Num(RoundedDiv(0 - x.num, x.dec - digits), digits).dec ]

\* the product stored as it is, not rounded
calculateAmountUnrounded(qty, rate, rounding) ==
    IF qty = Null \/ rate = Null THEN Null ELSE Times(qty, rate)

calculateAmount(qty, rate, rounding) ==
    IF qty = Null \/ rate = Null THEN Null ELSE toFixed(Times(qty, rate), rounding)

(***************************************************************************)
(* Database collaborator (src/lib/database.ts): table boq_rows             *)
(***************************************************************************)
\* SQL NULL in a text column
NullKey == "<null>"

\* JavaScript truthiness of a string or null
Truthy(str) == str # "" /\ str # NullKey

\* the rows of every version, as read without the filter on the version
AnyVersionRows(v) == DOMAIN boqRows

\* getByVersionId: .eq('boq_version_id', versionId)
VersionRows(v) == { id \in DOMAIN boqRows : boqRows[id].boq_version_id = v }

ExistingKeys(v) ==
    { boqRows[id].external_key : id \in { j \in VersionRows(v) : Truthy(boqRows[j].external_key) } }

\* the rows of version v with the key that can come last in getByVersionId's
\* order (by sort_order; rows of equal sort_order come in any order)
LastOfKey(v, key) ==
    { id \in VersionRows(v) :
        /\ boqRows[id].external_key = key
        /\ \A j \in VersionRows(v) :
             boqRows[j].external_key = key => boqRows[j].sort_order <= boqRows[id].sort_order }

\* the maps existingByKey that lines 24-30 of executeImport can build: per
\* key the id of the last row with that key
ExistingByKeyChoices(v) ==
    { f \in [ ExistingKeys(v) -> DOMAIN boqRows ] : \A k \in ExistingKeys(v) : f[k] \in LastOfKey(v, k) }

\* the row after update(id, updates): the fields of updates replaced
Merged(old, updates) ==
    [ f \in DOMAIN old |-> IF f \in DOMAIN updates THEN updates[f] ELSE old[f] ]

Removed(table, id) == [ j \in DOMAIN table \ {id} |-> table[j] ]

(***************************************************************************)
(* Reconciler / committer: executeImport (lib/import-commit.ts)            *)
(***************************************************************************)
\* itemCounter is not reset at a section header
NextItemCounterNoReset(rowType, itemCounter) ==
    IF rowType = "SectionHeader" THEN itemCounter ELSE itemCounter + 1

NextItemCounter(rowType, itemCounter) ==
    IF rowType = "SectionHeader" THEN 0 ELSE itemCounter + 1

NextSectionCounter(rowType, sectionCounter) ==
    IF rowType = "SectionHeader" THEN sectionCounter + 1 ELSE sectionCounter

\* the item number without the section's number
ItemNoWithoutSection(rowType, sectionCounter, itemCounter) ==
    IF rowType = "SectionHeader" THEN "" ELSE ToString(itemCounter)

ItemNo(rowType, sectionCounter, itemCounter) ==
    IF rowType = "SectionHeader" THEN ""
    ELSE IF sectionCounter > 0 THEN ToString(sectionCounter) \o "." \o ToString(itemCounter)
    ELSE ToString(itemCounter)

\* rowData with the status of a draft
RowDataAsDraft(vrow, boqVersionId, itemNo, amount, i) ==
    [ boq_version_id |-> boqVersionId,
      row_type       |-> vrow.row_type,
      item_no        |-> itemNo,
      section        |-> vrow.section,
      description    |-> vrow.description,
      uom            |-> vrow.uom,
      qty            |-> vrow.qty,
      rate           |-> vrow.rate,
      amount         |-> amount,
      measurement    |-> vrow.measurement,
      assumptions    |-> vrow.assumptions,
      category       |-> vrow.category,
      row_status     |-> "AIDraft",
      sort_order     |-> i,
      external_key   |-> IF vrow.external_key # "" THEN vrow.external_key ELSE NullKey ]

\* rowData of lines 68-84, for the row at 0-based position i of the pass
RowData(vrow, boqVersionId, itemNo, amount, i) ==
    [ boq_version_id |-> boqVersionId,
      row_type       |-> vrow.row_type,
      item_no        |-> itemNo,
      section        |-> vrow.section,
      description    |-> vrow.description,
      uom            |-> vrow.uom,
      qty            |-> vrow.qty,
      rate           |-> vrow.rate,
      amount         |-> amount,
      measurement    |-> vrow.measurement,
      assumptions    |-> vrow.assumptions,
      category       |-> vrow.category,
      row_status     |-> "Final",
      sort_order     |-> i,
      external_key   |-> IF vrow.external_key # "" THEN vrow.external_key ELSE NullKey ]

IsUpsert(r) == r.action = "UPSERT"

IsDelete(r) == r.action = "DELETE"

\* where the two loops stand: di and ui are the 1-based positions of the next
\* DELETE row and the next UPSERT row
LoopPc(deleteRows, upsertRows, di, ui) ==
    IF di <= Len(deleteRows) THEN "delete"
    ELSE IF ui <= Len(upsertRows) THEN "upsert"
    ELSE "job"

\* the local state of executeImport after lines 24-37
StartedRun(validRows, boqVersionId, warningCount, rounding, file, existingByKey) ==
    [ pc             |-> LoopPc(SelectSeq(validRows, IsDelete), SelectSeq(validRows, IsUpsert), 1, 1),
      validRows      |-> validRows,
      boqVersionId   |-> boqVersionId,
      warningCount   |-> warningCount,
      roundingRule   |-> rounding,
      file           |-> file,
      existingByKey  |-> existingByKey,
      upsertRows     |-> SelectSeq(validRows, IsUpsert),
      deleteRows     |-> SelectSeq(validRows, IsDelete),
      di             |-> 1,
      ui             |-> 1,
      created        |-> 0,
      updated        |-> 0,
      deleted        |-> 0,
      itemCounter    |-> 0,
      sectionCounter |-> 0,
      calls          |-> << >>,
      report         |-> Null,
      jobId          |-> 0 ]

\* a call of db.boqRows made by the pass, as logged
Call(op, id, vrow, data) == [ op |-> op, id |-> id, row |-> vrow, data |-> data ]

\* the pass begun only while no other pass on the revision is under way
BeginImportLocked(s, validRows, boqVersionId, warningCount, file) ==
    /\ runs[s].pc = "idle"
    /\ \A o \in Sessions \ { s } :
         runs[o].pc \in { "idle", "done", "failed" } \/ runs[o].boqVersionId # boqVersionId
    /\ \E existingByKey \in ExistingByKeyChoices(boqVersionId) :
         runs' = [ runs EXCEPT ![s] =
                     StartedRun(validRows, boqVersionId, warningCount, roundingRule, file, existingByKey) ]
    /\ UNCHANGED << roundingRule, boqVersions, boqRows, nextId, importJobs, auditLogs, history >>

\* lines 24-37: the existing rows are read and indexed, the rows split
BeginImport(s, validRows, boqVersionId, warningCount, file) ==
    /\ runs[s].pc = "idle"
    /\ \E existingByKey \in ExistingByKeyChoices(boqVersionId) :
         runs' = [ runs EXCEPT ![s] =
                     StartedRun(validRows, boqVersionId, warningCount, roundingRule, file, existingByKey) ]
    /\ UNCHANGED << roundingRule, boqVersions, boqRows, nextId, importJobs, auditLogs, history >>

\* lines 39-46: one pass of the DELETE loop
DeleteStep(s) ==
    /\ runs[s].pc = "delete"
    /\ LET r    == runs[s]
           vrow == r.deleteRows[r.di]
           hit  == vrow.external_key # "" /\ vrow.external_key \in DOMAIN r.existingByKey
       IN  /\ boqRows' = IF hit THEN Removed(boqRows, r.existingByKey[vrow.external_key])
                         ELSE boqRows
           /\ runs' = [ runs EXCEPT ![s] =
                 [ r EXCEPT !.di = r.di + 1,
                            !.deleted = IF hit THEN r.deleted + 1 ELSE r.deleted,
                            !.calls = IF hit
                                      THEN Append(r.calls, Call("delete", r.existingByKey[vrow.external_key], vrow, Null))
                                      ELSE r.calls,
                            !.pc = LoopPc(r.deleteRows, r.upsertRows, r.di + 1, r.ui) ] ]
    /\ UNCHANGED << roundingRule, boqVersions, nextId, importJobs, auditLogs, history >>
    /\ UNCHANGED fileVars

\* the run after one pass of the UPSERT loop that wrote data with the call op on id
AfterUpsert(r, vrow, op, id, data) ==
    [ r EXCEPT !.ui = r.ui + 1,
               !.sectionCounter = NextSectionCounter(vrow.row_type, r.sectionCounter),
               !.itemCounter = NextItemCounter(vrow.row_type, r.itemCounter),
               !.created = IF op = "create" THEN r.created + 1 ELSE r.created,
               !.updated = IF op = "update" THEN r.updated + 1 ELSE r.updated,
               !.calls = Append(r.calls, Call(op, id, vrow, data)),
               !.pc = LoopPc(r.deleteRows, r.upsertRows, r.di, r.ui + 1) ]

\* rowData for the next row of the UPSERT loop of run r
NextRowData(r, vrow) ==
    RowData(vrow, r.boqVersionId,
            ItemNo(vrow.row_type,
                   NextSectionCounter(vrow.row_type, r.sectionCounter),
                   NextItemCounter(vrow.row_type, r.itemCounter)),
            calculateAmount(vrow.qty, vrow.rate, r.roundingRule),
            r.ui - 1)

\* no row is matched to an existing record
HasExistingNever(r, vrow) == FALSE

\* lines 86-88: existing, the record that existingByKey has for the row's key
HasExisting(r, vrow) == vrow.external_key # "" /\ vrow.external_key \in DOMAIN r.existingByKey

\* lines 88-91: the row has an existing record, which is updated; update()
\* asks for the updated row with .single(), and throws when the id matches
\* no row
UpdateStep(s) ==
    /\ runs[s].pc = "upsert"
    /\ HasExisting(runs[s], runs[s].upsertRows[runs[s].ui])
    /\ LET r    == runs[s]
           vrow == r.upsertRows[r.ui]
           id   == r.existingByKey[vrow.external_key]
       IN  IF id \in DOMAIN boqRows
           THEN /\ boqRows' = [ boqRows EXCEPT ![id] =
                                  Merged(@, Without(NextRowData(r, vrow), "boq_version_id")) ]
                /\ runs' = [ runs EXCEPT ![s] =
                               AfterUpsert(r, vrow, "update", id,
                                           Without(NextRowData(r, vrow), "boq_version_id")) ]
           ELSE /\ boqRows' = boqRows
                /\ runs' = [ runs EXCEPT ![s] = [ r EXCEPT !.pc = "failed" ] ]
    /\ UNCHANGED << roundingRule, boqVersions, nextId, importJobs, auditLogs, history >>
    /\ UNCHANGED fileVars

\* lines 92-95: the row has no existing record, and one is created
CreateStep(s) ==
    /\ runs[s].pc = "upsert"
    /\ ~HasExisting(runs[s], runs[s].upsertRows[runs[s].ui])
    /\ LET r    == runs[s]
           vrow == r.upsertRows[r.ui]
       IN  /\ boqRows' = boqRows @@ (nextId :> NextRowData(r, vrow))
           /\ runs' = [ runs EXCEPT ![s] = AfterUpsert(r, vrow, "create", nextId, NextRowData(r, vrow)) ]
    /\ nextId' = nextId + 1
    /\ UNCHANGED << roundingRule, boqVersions, importJobs, auditLogs, history >>
    /\ UNCHANGED fileVars

\* the report without the validator's warning count
ReportOfNoWarnings(r) ==
    [ rowsCreated    |-> r.created,
      rowsUpdated    |-> r.updated,
      rowsDeleted    |-> r.deleted,
      warningCount   |-> 0,
      totalProcessed |-> Len(r.validRows) ]

ReportOf(r) ==
    [ rowsCreated    |-> r.created,
      rowsUpdated    |-> r.updated,
      rowsDeleted    |-> r.deleted,
      warningCount   |-> r.warningCount,
      totalProcessed |-> Len(r.validRows) ]

\* lines 98-115: the report is built and the import job created
CreateJob(s) ==
    /\ runs[s].pc = "job"
    /\ importJobs' = Append(importJobs,
                            [ id             |-> Len(importJobs) + 1,
                              boq_version_id |-> runs[s].boqVersionId,
                              file_name      |-> runs[s].file.name,
                              file_path      |-> NullKey,
                              file_type      |-> runs[s].file.type,
                              status         |-> "committed",
                              report_json    |-> ReportOf(runs[s]) ])
    /\ runs' = [ runs EXCEPT ![s] = [ runs[s] EXCEPT !.report = ReportOf(runs[s]),
                                                    !.jobId = Len(importJobs) + 1,
                                                    !.pc = "upload" ] ]
    /\ UNCHANGED << roundingRule, boqVersions, boqRows, nextId, auditLogs, history >>
    /\ UNCHANGED fileVars

\* a failure to store the file thrown on to the caller
UploadFileOrThrow(s, stored) ==
    /\ runs[s].pc = "upload"
    /\ importJobs' =
         IF runs[s].file.content /\ runs[s].file.name # "" /\ stored
         THEN [ importJobs EXCEPT ![runs[s].jobId].file_path = runs[s].file.name ]
         ELSE importJobs
    /\ runs' = [ runs EXCEPT ![s].pc = IF stored THEN "audit" ELSE "failed" ]
    /\ UNCHANGED << roundingRule, boqVersions, boqRows, nextId, auditLogs, history >>
    /\ UNCHANGED fileVars

\* lines 117-132: the file is stored and the job given its path; stored tells
\* whether both calls succeed (a failure is caught and logged)
UploadFile(s, stored) ==
    /\ runs[s].pc = "upload"
    /\ importJobs' =
         IF runs[s].file.content /\ runs[s].file.name # "" /\ stored
         THEN [ importJobs EXCEPT ![runs[s].jobId].file_path = runs[s].file.name ]
         ELSE importJobs
    /\ runs' = [ runs EXCEPT ![s].pc = "audit" ]
    /\ UNCHANGED << roundingRule, boqVersions, boqRows, nextId, auditLogs, history >>
    /\ UNCHANGED fileVars

\* the report returned without an audit entry
ReturnUnaudited(s) ==
    /\ runs[s].pc = "audit"
    /\ auditLogs' = auditLogs
    /\ runs' = [ runs EXCEPT ![s].pc = "done" ]
    /\ UNCHANGED << roundingRule, boqVersions, boqRows, nextId, importJobs, history >>
    /\ UNCHANGED fileVars

\* lines 134-144: the audit entry is written and the report returned
WriteAudit(s) ==
    /\ runs[s].pc = "audit"
    /\ auditLogs' = Append(auditLogs,
                           [ action_type    |-> "import_committed",
                             entity_type    |-> "boq_version",
                             entity_id      |-> runs[s].boqVersionId,
                             after_snapshot |-> runs[s].report ])
    /\ runs' = [ runs EXCEPT ![s].pc = "done" ]
    /\ UNCHANGED << roundingRule, boqVersions, boqRows, nextId, importJobs, history >>
    /\ UNCHANGED fileVars

\* what the caller of an invocation that ended is left with
Outcome(r) ==
    [ validRows    |-> r.validRows,
      boqVersionId |-> r.boqVersionId,
      ok           |-> r.pc = "done",
      report       |-> r.report,
      calls        |-> r.calls ]

\* executeImport has returned or thrown
Ended(s) == runs[s].pc \in { "done", "failed" }

(***************************************************************************)
(* Commits of files into revisions, one after the other                    *)
(***************************************************************************)
\* the commits made one after the other
MaxCommits == 2

Versions == { "v1", "v2" }

RoundingRules == { 0, 1, 2 }

ValidRowOf(csvRow) == validateImportRows(<< csvRow >>, FullMapping).validRows[1]

\* a revision as an earlier import of GoodRow and the editor's "add row"
\* leave it: a keyed record and a record without key
SeededRows ==
    (1 :> RowData(ValidRowOf(GoodRow), "v1", "1", Num(25, 0), 0))
    @@ (2 :> [ boq_version_id |-> "v1", row_type |-> "LineItem", item_no |-> "",
               section |-> "", description |-> "", uom |-> "LS", qty |-> Null,
               rate |-> Null, amount |-> Null, measurement |-> "", assumptions |-> "",
               category |-> "Labour", row_status |-> "Final", sort_order |-> 1,
               external_key |-> NullKey ])

\* a revision as generation from a scope of work leaves it (BoQEditor): a
\* section header and a line item, both AIDraft, both with the run's id as key
AIDraftRows ==
    (1 :> [ boq_version_id |-> "v1", row_type |-> "SectionHeader", item_no |-> "",
            section |-> "Civil", description |-> "Civil", uom |-> "", qty |-> Null,
            rate |-> Null, amount |-> Null, measurement |-> "", assumptions |-> "",
            category |-> "", row_status |-> "AIDraft", sort_order |-> 0,
            external_key |-> "K2" ])
    @@ (2 :> [ boq_version_id |-> "v1", row_type |-> "LineItem", item_no |-> "",
               section |-> "Civil", description |-> "Pour", uom |-> "m3", qty |-> Num(4, 0),
               rate |-> Null, amount |-> Null, measurement |-> "", assumptions |-> "",
               category |-> "Material", row_status |-> "AIDraft", sort_order |-> 1,
               external_key |-> "K2" ])

SeedStores == { << >>, SeededRows, AIDraftRows }

KeyedHeaderRow == Row("SectionHeader", "K1", "Earthworks", "m", "10", "2.5", "", "Labour", "")
NoRateRow == Row("LineItem", "K1", "Dig deeper", "m", "4", "", "", "Labour", "")
FillRow == Row("", "", "Fill", "m3", "1.5", "0.5", "", "", "")
PourRow == Row("LineItem", "K2", "Pour", "m3", "4", "25", "7", "Misc", "upsert")
DeleteRow == Row("", "K1", "Dig", "", "", "", "", "", "delete")

CommitTables ==
    { << GoodRow >>,
      << GoodRow, NoRateRow >>,
      << DeleteRow, GoodRow >>,
      << HeaderRow, GoodRow, FillRow, HeaderRow, PourRow >>,
      << FillRow, KeyedHeaderRow, PourRow >>,
      << NoDescRow, GoodRow >>,
      << DeleteRow, DeleteRow >>,
      << GoodRow, PourRow >>,
      << NoRateRow, FillRow, PourRow >>,
      << DeleteRow >> }

ImportFile == [ name |-> "boq.csv", type |-> "csv", content |-> TRUE ]

CommitInit ==
    /\ headers = BOQ_FIELDS
    /\ rows = << >>
    /\ mapping = FullMapping
    /\ validation = Null
    /\ phase = "start"
    /\ summary = Null
    /\ wizard = ClosedWizard
    /\ roundingRule \in RoundingRules
    /\ boqVersions = [ v \in Versions |-> [ is_frozen |-> FALSE ] ]
    /\ boqRows \in SeedStores
    /\ nextId = 3
    /\ importJobs = << >>
    /\ auditLogs = << >>
    /\ runs = [ s \in Sessions |-> NoRun ]
    /\ history = << >>

\* a file is read and its rows kept
ChooseFile(t) ==
    /\ phase \in { "start", "validated" }
    /\ Len(history) < MaxCommits
    /\ rows' = t
    /\ validation' = Null
    /\ phase' = "loaded"
    /\ UNCHANGED << headers, mapping, wizard, summary >>
    /\ UNCHANGED storeVars

\* handleCommit, reached through canProceed at the review step: executeImport
\* is called with the valid rows for the revision chosen
StartCommit(v) ==
    /\ phase = "validated"
    /\ validation # Null
    /\ Len(validation.errors) = 0
    /\ BeginImport(1, validation.validRows, v, Len(validation.warnings), ImportFile)
    /\ phase' = "committing"
    /\ UNCHANGED << headers, rows, mapping, validation, wizard, summary >>

\* executeImport has returned its report or thrown; the wizard shows the
\* result and is closed
Finish ==
    /\ phase = "committing"
    /\ Ended(1)
    /\ history' = Append(history, Outcome(runs[1]))
    /\ runs' = [ runs EXCEPT ![1] = NoRun ]
    /\ rows' = << >>
    /\ validation' = Null
    /\ phase' = "start"
    /\ UNCHANGED << headers, mapping, wizard, roundingRule, boqVersions, boqRows, nextId, importJobs, auditLogs, summary >>

CommitNext ==
    \/ \E t \in CommitTables : ChooseFile(t)
    \/ Validate
    \/ \E v \in Versions : StartCommit(v)
    \/ DeleteStep(1)
    \/ UpdateStep(1)
    \/ CreateStep(1)
    \/ CreateJob(1)
    \/ UploadFile(1, TRUE)
    \/ WriteAudit(1)
    \/ Finish

CommitSpec == CommitInit /\ [][CommitNext]_vars

(***************************************************************************)
(* Properties of the commit                                                *)
(***************************************************************************)
Started == { s \in Sessions : runs[s].pc # "idle" }

\* the positions in the call log of run r of its create and update calls
Writes(r) == { k \in 1..Len(r.calls) : r.calls[k].op # "delete" }

\* call k of run r is the last one of the run on its record
LastOnRecord(r, k) == \A j \in (k + 1)..Len(r.calls) : r.calls[j].id # r.calls[k].id

\* the k-th create or update call of run r
UpsertCall(r, k) == r.calls[Len(r.calls) - Cardinality(Writes(r)) + k]

HeadersUpTo(u, k) == Cardinality({ j \in 1..k : u[j].row_type = "SectionHeader" })

LastHeaderBefore(u, k) ==
    IF HeadersUpTo(u, k) = 0 THEN 0
    ELSE CHOOSE j \in 1..k : u[j].row_type = "SectionHeader"
                             /\ \A l \in (j + 1)..k : u[l].row_type # "SectionHeader"

\* the item number the claim gives row k of the UPSERT pass u
ExpectedItemNo(u, k) ==
    IF HeadersUpTo(u, k) > 0
    THEN ToString(HeadersUpTo(u, k)) \o "." \o ToString(k - LastHeaderBefore(u, k))
    ELSE ToString(k)

\* C7: in the UPSERT pass, after k rows sectionCounter is the number of
\* SectionHeader rows among them and itemCounter the number of LineItem rows
\* since the last of these; each LineItem row is written, and stored, with
\* the item number "{sectionCounter}.{itemCounter}" if a SectionHeader row
\* precedes it in the pass, else with the bare itemCounter.
C7_ItemNumbering ==
    \A s \in Started :
       /\ Cardinality(Writes(runs[s])) = runs[s].ui - 1
       /\ runs[s].sectionCounter = HeadersUpTo(runs[s].upsertRows, runs[s].ui - 1)
       /\ runs[s].itemCounter = (runs[s].ui - 1) - LastHeaderBefore(runs[s].upsertRows, runs[s].ui - 1)
       /\ \A k \in 1..(runs[s].ui - 1) :
            /\ UpsertCall(runs[s], k).row = runs[s].upsertRows[k]
            /\ runs[s].upsertRows[k].row_type = "LineItem" =>
                 /\ UpsertCall(runs[s], k).data.item_no = ExpectedItemNo(runs[s].upsertRows, k)
                 /\ k = runs[s].ui - 1 =>
                      boqRows[UpsertCall(runs[s], k).id].item_no = ExpectedItemNo(runs[s].upsertRows, k)

RowTypes(u) == [ k \in 1..Len(u) |-> u[k].row_type ]

\* the scenario [SectionHeader, A, B, SectionHeader, C] has been committed
\* and the records of A, B and C hold 1.1, 1.2 and 2.1
C7_Witness ==
    /\ runs[1].pc = "done"
    /\ RowTypes(runs[1].upsertRows)
         = << "SectionHeader", "LineItem", "LineItem", "SectionHeader", "LineItem" >>
    /\ Cardinality({ runs[1].calls[k].id : k \in 1..5 }) = 5
    /\ boqRows[runs[1].calls[2].id].item_no = "1.1"
    /\ boqRows[runs[1].calls[3].id].item_no = "1.2"
    /\ boqRows[runs[1].calls[5].id].item_no = "2.1"

SameKey(a, b) == a.external_key # "" /\ a.external_key = b.external_key

\* C8: the UPSERT rows of one file with the same non-empty key are all
\* written to one record, which ends with the values of the last of them,
\* whether or not a record with that key existed before.
C8_DuplicateKeysOneRecord ==
    \A s \in Sessions :
       runs[s].pc = "done" =>
         \A j \in Writes(runs[s]) : \A k \in Writes(runs[s]) :
            (j < k /\ SameKey(runs[s].calls[j].row, runs[s].calls[k].row)) =>
               /\ runs[s].calls[j].id = runs[s].calls[k].id
               /\ LastOnRecord(runs[s], k) =>
                    boqRows[runs[s].calls[k].id].description = runs[s].calls[k].row.description

Abs(n) == IF n < 0 THEN 0 - n ELSE n

Max(a, b) == IF a > b THEN a ELSE b

\* a has at most rounding decimals and is a nearest such number to q * r
RoundedProduct(a, q, r, rounding) ==
    /\ a.dec <= rounding
    /\ 2 * Abs(q.num * r.num * Pow10(Max(q.dec + r.dec, rounding) - (q.dec + r.dec))
               - a.num * Pow10(Max(q.dec + r.dec, rounding) - a.dec))
         <= Pow10(Max(q.dec + r.dec, rounding) - rounding)

AmountFits(rec, rounding) ==
    IF rec.qty = Null \/ rec.rate = Null THEN rec.amount = Null
    ELSE rec.amount # Null /\ RoundedProduct(rec.amount, rec.qty, rec.rate, rounding)

\* C9: every record created or updated by an UPSERT row gets the row's qty
\* and rate, and its amount is null when qty or rate is null and otherwise
\* qty * rate rounded to the commit's roundingRule decimals, whatever the
\* file's amount column holds.
C9_AmountComputed ==
    \A s \in Started : \A k \in Writes(runs[s]) :
       /\ runs[s].calls[k].data.qty = runs[s].calls[k].row.qty
       /\ runs[s].calls[k].data.rate = runs[s].calls[k].row.rate
       /\ AmountFits(runs[s].calls[k].data, runs[s].roundingRule)
       /\ runs[s].calls[k].id \in DOMAIN boqRows =>
            AmountFits(boqRows[runs[s].calls[k].id], runs[s].roundingRule)
       /\ LastOnRecord(runs[s], k) =>
            /\ boqRows[runs[s].calls[k].id].qty = runs[s].calls[k].data.qty
            /\ boqRows[runs[s].calls[k].id].rate = runs[s].calls[k].data.rate
            /\ boqRows[runs[s].calls[k].id].amount = runs[s].calls[k].data.amount

\* at one decimal, the rows (4, no rate), (1.5, 0.5) and (4, 25, amount
\* column 7) have been committed: the records hold null, 0.8 and 100
C9_Witness ==
    /\ runs[1].pc = "done"
    /\ runs[1].roundingRule = 1
    /\ Len(runs[1].calls) = 3
    /\ Cardinality({ runs[1].calls[k].id : k \in 1..3 }) = 3
    /\ boqRows[runs[1].calls[1].id].qty = Num(4, 0)
    /\ boqRows[runs[1].calls[1].id].amount = Null
    /\ boqRows[runs[1].calls[2].id].qty = Num(15, 1)
    /\ boqRows[runs[1].calls[2].id].rate = Num(5, 1)
    /\ boqRows[runs[1].calls[2].id].amount = Num(8, 1)
    /\ boqRows[runs[1].calls[3].id].amount = Num(100, 0)

Blank(rec) ==
    /\ rec.uom = ""
    /\ rec.category = ""
    /\ rec.qty = Null
    /\ rec.rate = Null
    /\ rec.amount = Null

\* C10: every record created or updated from a SectionHeader row is written
\* with uom and category empty and qty, rate and amount null, and holds
\* these until another row is written to it.
C10_HeaderRecordsBlank ==
    \A s \in Started : \A k \in Writes(runs[s]) :
       runs[s].calls[k].row.row_type = "SectionHeader" =>
          /\ Blank(runs[s].calls[k].data)
          /\ LastOnRecord(runs[s], k) =>
               /\ boqRows[runs[s].calls[k].id].row_type = "SectionHeader"
               /\ Blank(boqRows[runs[s].calls[k].id])

\* a SectionHeader row with cells in all five columns has updated record 1,
\* a LineItem record with uom m, qty 10, rate 2.5 and amount 25
C10_Witness ==
    /\ runs[1].pc = "done"
    /\ \E k \in Writes(runs[1]) :
          /\ runs[1].calls[k].op = "update"
          /\ runs[1].calls[k].id = 1
          /\ runs[1].calls[k].row.row_type = "SectionHeader"
          /\ rows[runs[1].calls[k].row.rowIndex + 1] = KeyedHeaderRow
          /\ SeededRows[1].uom = "m" /\ SeededRows[1].amount = Num(25, 0)
          /\ Blank(boqRows[1])

AllKeyed(validRows) == \A k \in 1..Len(validRows) : validRows[k].external_key # ""

\* commits k and k + 1 are of the same rows, all with a key, into the same
\* revision, and the first returned a report
Repeated(k) ==
    /\ history[k].ok
    /\ history[k + 1].validRows = history[k].validRows
    /\ history[k + 1].boqVersionId = history[k].boqVersionId
    /\ AllKeyed(history[k].validRows)

Creates(calls) == { j \in 1..Len(calls) : calls[j].op = "create" }

DeletedAndUpserted(validRows) ==
    \E i \in 1..Len(validRows) : \E j \in 1..Len(validRows) :
       /\ validRows[i].action = "DELETE"
       /\ validRows[j].action = "UPSERT"
       /\ validRows[i].external_key = validRows[j].external_key

\* C6 as stated: a second commit of the same keyed rows into the same
\* revision that returns a report reports rowsCreated = 0 and rowsUpdated
\* equal to the first commit's rowsCreated.
C6_SecondUpdatesFirstCreated ==
    \A k \in 1..(Len(history) - 1) :
       (Repeated(k) /\ history[k + 1].ok) =>
          /\ history[k + 1].report.rowsCreated = 0
          /\ history[k + 1].report.rowsUpdated = history[k].report.rowsCreated

\* C6, amended: a second commit of the same keyed rows into the same revision
\* creates no record; if it returns a report, the report has rowsCreated = 0
\* and rowsUpdated equal to the first commit's rowsCreated + rowsUpdated; it
\* fails to return one only if the rows have a DELETE and an UPSERT of one key.
C6_SecondUpdatesFirstWritten ==
    \A k \in 1..(Len(history) - 1) :
       Repeated(k) =>
          /\ Creates(history[k + 1].calls) = {}
          /\ history[k + 1].ok =>
               /\ history[k + 1].report.rowsCreated = 0
               /\ history[k + 1].report.rowsUpdated
                    = history[k].report.rowsCreated + history[k].report.rowsUpdated
          /\ ~history[k + 1].ok => DeletedAndUpserted(history[k].validRows)

\* the same two keyed rows have been committed twice into a revision that
\* had a record for one of the keys: 1 created and 1 updated, then 2 updated
C6_Witness ==
    /\ Len(history) = 2
    /\ Repeated(1)
    /\ history[2].ok
    /\ history[1].report.rowsCreated = 1
    /\ history[1].report.rowsUpdated = 1
    /\ history[2].report.rowsCreated = 0
    /\ history[2].report.rowsUpdated = 2

(***************************************************************************)
(* Import wizard (components/estimates/import/ImportWizard.tsx and steps)  *)
(***************************************************************************)
unfrozenVersions == { v \in DOMAIN boqVersions : ~boqVersions[v].is_frozen }

\* the review step lets through any validation result
canProceedUnchecked(v) == v # Null

\* case 3 of canProceed
canProceedPreview(v) == v # Null /\ Len(v.errors) = 0

canProceed ==
    CASE wizard.step = 0 ->
           wizard.target = "new"
           \/ (wizard.target = "existing" /\ wizard.existingVersionId # "")
      [] wizard.step = 1 -> wizard.parsed
      [] wizard.step = 2 -> "description" \in DOMAIN mapping /\ mapping["description"] # -1
      [] wizard.step = 3 -> canProceedPreview(validation)
      [] OTHER -> FALSE

\* the footer's Next / Commit Import button is shown and not disabled
NextEnabled == wizard.step < 4 /\ canProceed /\ ~wizard.committing

\* the files a FileReader is reading at one time
MaxPendingReads == 1

\* the commits made through the wizard
MaxWizardCommits == 1

\* StepTarget: one of the two target buttons is clicked
SetTarget(t) ==
    /\ wizard.step = 0
    /\ t = "existing" => unfrozenVersions # {}
    /\ wizard' = [ wizard EXCEPT !.target = t ]
    /\ UNCHANGED << headers, rows, mapping, validation, phase, summary >>
    /\ UNCHANGED storeVars

\* StepTarget: an option of the version select is chosen
SetExistingVersionId(v) ==
    /\ wizard.step = 0
    /\ wizard.target = "existing"
    /\ v \in unfrozenVersions \cup { "" }
    /\ wizard' = [ wizard EXCEPT !.existingVersionId = v ]
    /\ UNCHANGED << headers, rows, mapping, validation, phase, summary >>
    /\ UNCHANGED storeVars

\* StepUpload.processFile: a file is dropped or picked, and a FileReader
\* starts reading it
ProcessFileOf(file, maxReads) ==
    /\ wizard.step = 1
    /\ ~wizard.parsed
    /\ Cardinality(wizard.reading) < maxReads
    /\ file \notin wizard.reading
    /\ wizard' = [ wizard EXCEPT !.reading = @ \cup { file } ]
    /\ UNCHANGED << headers, rows, mapping, validation, phase, summary >>
    /\ UNCHANGED storeVars

ProcessFile(file) == ProcessFileOf(file, MaxPendingReads)

Accepted(file) ==
    /\ Len(file.headers) # 0
    /\ Len(file.rows) # 0
    /\ Len(file.rows) <= 2000

\* reader.onload of StepUpload.processFile: the file is parsed and, unless
\* rejected, becomes parsedCSV
FileLoaded(file) ==
    /\ file \in wizard.reading
    /\ wizard' = [ wizard EXCEPT !.reading = @ \ { file },
                                 !.parsed = IF Accepted(file) THEN TRUE ELSE @ ]
    /\ headers' = IF Accepted(file) THEN file.headers ELSE headers
    /\ rows' = IF Accepted(file) THEN file.rows ELSE rows
    /\ UNCHANGED << mapping, validation, phase, summary >>
    /\ UNCHANGED storeVars

\* StepUpload.handleClear
HandleClear ==
    /\ wizard.step = 1
    /\ wizard.parsed
    /\ wizard' = [ wizard EXCEPT !.parsed = FALSE ]
    /\ headers' = << >>
    /\ rows' = << >>
    /\ UNCHANGED << mapping, validation, phase, summary >>
    /\ UNCHANGED storeVars

\* column csvIndex is mapped to a field other than fieldKey
UsedElsewhere(fieldKey, csvIndex) ==
    \E f \in DOMAIN mapping \ { fieldKey } : mapping[f] = csvIndex

\* StepMapping.handleChange: an enabled option of a field's select is chosen
HandleChange(fieldKey, csvIndex) ==
    /\ wizard.step = 2
    /\ wizard.parsed
    /\ \/ csvIndex = -1
       \/ csvIndex \in 0..(Len(headers) - 1) /\ ~UsedElsewhere(fieldKey, csvIndex)
    /\ mapping' = IF csvIndex = -1 THEN Without(mapping, fieldKey)
                  ELSE (fieldKey :> csvIndex) @@ mapping
    /\ UNCHANGED << headers, rows, validation, phase, wizard, summary >>
    /\ UNCHANGED storeVars

\* handleNext at the steps before the review step
HandleNext ==
    /\ NextEnabled
    /\ wizard.step < 3
    /\ wizard.step = 0 => Len(history) < MaxWizardCommits
    /\ mapping' = IF wizard.step = 1 /\ wizard.parsed THEN autoMapColumns(headers) ELSE mapping
    /\ validation' = IF wizard.step = 2 /\ wizard.parsed
                     THEN validateImportRows(rows, mapping) ELSE validation
    /\ wizard' = [ wizard EXCEPT !.step = @ + 1 ]
    /\ UNCHANGED << headers, rows, phase, summary >>
    /\ UNCHANGED storeVars

\* handleBack
HandleBack ==
    /\ wizard.step \in 1..3
    /\ ~wizard.committing
    /\ validation' = IF wizard.step = 3 THEN Null ELSE validation
    /\ wizard' = [ wizard EXCEPT !.step = @ - 1 ]
    /\ UNCHANGED << headers, rows, mapping, phase, summary >>
    /\ UNCHANGED storeVars

\* the id of the version that db.boqVersions.create inserts
NewVersionId == "v" \o ToString(Cardinality(DOMAIN boqVersions) + 1)

\* handleNext at the review step, that is handleCommit up to the call of
\* executeImport, into an existing version
HandleCommitExisting ==
    /\ NextEnabled
    /\ wizard.step = 3
    /\ validation # Null /\ wizard.parsed
    /\ wizard.target = "existing"
    /\ wizard' = [ wizard EXCEPT !.committing = TRUE ]
    /\ BeginImport(1, validation.validRows, wizard.existingVersionId,
                   Len(validation.warnings), ImportFile)
    /\ UNCHANGED << headers, rows, mapping, validation, phase, summary >>

\* the same into a new version: the version is created, its creation
\* audited, and executeImport called
HandleCommitNew ==
    /\ NextEnabled
    /\ wizard.step = 3
    /\ validation # Null /\ wizard.parsed
    /\ wizard.target = "new"
    /\ wizard' = [ wizard EXCEPT !.committing = TRUE ]
    /\ boqVersions' = (NewVersionId :> [ is_frozen |-> FALSE ]) @@ boqVersions
    /\ auditLogs' = Append(auditLogs,
                           [ action_type    |-> "create_version_via_import",
                             entity_type    |-> "boq_version",
                             entity_id      |-> NewVersionId,
                             after_snapshot |-> Null ])
    /\ \E existingByKey \in ExistingByKeyChoices(NewVersionId) :
         runs' = [ runs EXCEPT ![1] =
                     StartedRun(validation.validRows, NewVersionId, Len(validation.warnings),
                                roundingRule, ImportFile, existingByKey) ]
    /\ UNCHANGED << headers, rows, mapping, validation, phase, summary >>
    /\ UNCHANGED << roundingRule, boqRows, nextId, importJobs, history >>

HandleCommit == HandleCommitExisting \/ HandleCommitNew

\* handleCommit after executeImport: the report or the error is kept and the
\* result step shown
CommitEnded ==
    /\ wizard.committing
    /\ Ended(1)
    /\ wizard' = [ wizard EXCEPT !.step = 4,
                                 !.committing = FALSE,
                                 !.result = IF runs[1].pc = "done" THEN "report" ELSE "error" ]
    /\ history' = Append(history, Outcome(runs[1]))
    /\ runs' = [ runs EXCEPT ![1] = NoRun ]
    /\ UNCHANGED << headers, rows, mapping, validation, phase, summary >>
    /\ UNCHANGED << roundingRule, boqVersions, boqRows, nextId, importJobs, auditLogs >>

\* handleClose: Cancel, Close or the modal's own close
HandleClose ==
    /\ ~wizard.committing
    /\ wizard' = [ ClosedWizard EXCEPT !.reading = wizard.reading ]
    /\ headers' = << >>
    /\ rows' = << >>
    /\ mapping' = EmptyMapping
    /\ validation' = Null
    /\ UNCHANGED << phase, summary >>
    /\ UNCHANGED storeVars

\* handleFreezeVersion of the page behind the wizard, from the answer of
\* db.boqVersions.freeze on: the version is frozen in the database and in
\* the version list that the wizard is given.  The freeze is confirmed on
\* the page, so a version that the open wizard created is not yet frozen.
FreezeVersion(v) ==
    /\ v \in unfrozenVersions
    /\ ~(wizard.target = "new" /\ (wizard.committing \/ wizard.step = 4))
    /\ boqVersions' = [ boqVersions EXCEPT ![v].is_frozen = TRUE ]
    /\ UNCHANGED fileVars
    /\ UNCHANGED << roundingRule, boqRows, nextId, importJobs, auditLogs, runs, history >>

WorkRow == << "Dig", "m" >>

WizardFiles ==
    { [ headers |-> BOQ_FIELDS, rows |-> << GoodRow >> ],
      [ headers |-> BOQ_FIELDS, rows |-> << PourRow >> ],
      [ headers |-> BOQ_FIELDS, rows |-> << NoDescRow, PourRow >> ],
      [ headers |-> BOQ_FIELDS, rows |-> << DeleteRow, FillRow >> ],
      [ headers |-> << "Work", "Unit" >>, rows |-> << WorkRow >> ],
      [ headers |-> BOQ_FIELDS, rows |-> << >> ] }

WizardFields == { "description", "uom" }

WizardInit ==
    /\ headers = << >>
    /\ rows = << >>
    /\ mapping = EmptyMapping
    /\ validation = Null
    /\ phase = "wizard"
    /\ summary = Null
    /\ wizard = ClosedWizard
    /\ roundingRule = 2
    /\ boqVersions = ("v1" :> [ is_frozen |-> FALSE ]) @@ ("v2" :> [ is_frozen |-> TRUE ])
    /\ boqRows = SeededRows
    /\ nextId = 3
    /\ importJobs = << >>
    /\ auditLogs = << >>
    /\ runs = [ s \in Sessions |-> NoRun ]
    /\ history = << >>

WizardNext ==
    \/ \E t \in { "new", "existing" } : SetTarget(t)
    \/ \E v \in DOMAIN boqVersions \cup { "" } : SetExistingVersionId(v)
    \/ \E file \in WizardFiles : ProcessFile(file)
    \/ \E file \in WizardFiles : FileLoaded(file)
    \/ HandleClear
    \/ \E f \in WizardFields : \E i \in -1..1 : HandleChange(f, i)
    \/ HandleNext
    \/ HandleBack
    \/ HandleCommitExisting
    \/ HandleCommitNew
    \/ DeleteStep(1)
    \/ UpdateStep(1)
    \/ CreateStep(1)
    \/ CreateJob(1)
    \/ UploadFile(1, TRUE)
    \/ WriteAudit(1)
    \/ CommitEnded
    \/ HandleClose

WizardSpec == WizardInit /\ [][WizardNext]_vars

\* C5: while the wizard commits, and while executeImport runs, the current
\* validation result has no errors and executeImport has its valid rows; and
\* at the review step a validation result without errors, whatever its
\* warnings, leaves the commit enabled.
C5_CommitOnlyWithoutErrors ==
    /\ (wizard.committing \/ runs[1].pc # "idle") =>
          /\ validation # Null
          /\ Len(validation.errors) = 0
          /\ runs[1].pc # "idle"
          /\ runs[1].validRows = validation.validRows
          /\ runs[1].warningCount = Len(validation.warnings)
    /\ (wizard.step = 3 /\ ~wizard.committing /\ validation # Null) =>
          /\ Len(validation.errors) = 0 => NextEnabled /\ ENABLED HandleCommit
          /\ Len(validation.errors) # 0 => ~NextEnabled /\ ~ENABLED HandleCommit

\* executeImport has run to its end for a validation result with two
\* warnings and no error
C5_Witness ==
    /\ wizard.committing
    /\ runs[1].pc = "done"
    /\ Len(validation.errors) = 0
    /\ Len(validation.warnings) = 2
    /\ runs[1].warningCount = 2

(***************************************************************************)
(* Properties of the records a commit touches                              *)
(***************************************************************************)
\* this step is an update call of run s
UpdateCalled(s) ==
    /\ runs[s].pc = "upsert"
    /\ runs'[s].pc # "failed"
    /\ Len(runs'[s].calls) = Len(runs[s].calls) + 1
    /\ runs'[s].calls[Len(runs'[s].calls)].op = "update"

UpdatedId(s) == runs'[s].calls[Len(runs'[s].calls)].id

\* C11: an UPSERT row whose key matches an existing record updates that
\* record in place and creates none: the record keeps its id and revision, and
\* its status, which the validated row does not carry, is left as it was.
C11_UpdatePreservesStatus ==
    [][\A s \in Sessions :
         UpdateCalled(s) =>
            /\ DOMAIN boqRows' = DOMAIN boqRows
            /\ boqRows'[UpdatedId(s)].boq_version_id = boqRows[UpdatedId(s)].boq_version_id
            /\ boqRows'[UpdatedId(s)].row_status = boqRows[UpdatedId(s)].row_status]_vars

\* the create calls in a call log
CreateCalls(calls) == { calls[k] : k \in Creates(calls) }

\* the create calls of the commits that ended and of those under way
AllCreateCalls ==
    UNION { CreateCalls(history[k].calls) : k \in 1..Len(history) }
    \cup UNION { CreateCalls(runs[s].calls) : s \in Started }

\* C12: every record that a commit creates is created with status Final and
\* has status Final for as long as it exists, over any sequence of commits.
C12_CreatedRecordsFinal ==
    \A c \in AllCreateCalls :
       /\ c.data.row_status = "Final"
       /\ c.id \in DOMAIN boqRows => boqRows[c.id].row_status = "Final"

\* a second commit has created a record in a revision that holds AIDraft
\* records, after a first commit that created one too
C12_Witness ==
    /\ Len(history) = 1
    /\ Creates(history[1].calls) # {}
    /\ runs[1].pc = "done"
    /\ Creates(runs[1].calls) # {}
    /\ runs[1].boqVersionId = "v1"
    /\ \E id \in DOMAIN boqRows : boqRows[id].row_status = "AIDraft"

OnlyUpserts(validRows) == \A k \in 1..Len(validRows) : validRows[k].action = "UPSERT"

\* the records of the target revision of run s that the run did not create:
\* with no DELETE row and no other commit under way, the records the revision
\* had when the run began
NotCreatedBy(s) ==
    VersionRows(runs[s].boqVersionId) \ { c.id : c \in CreateCalls(runs[s].calls) }

\* C13: a commit of UPSERT rows only into a revision without records returns
\* the report rowsCreated = validRows.length, rowsUpdated = 0, rowsDeleted = 0,
\* totalProcessed = validRows.length, warningCount = the validator's warning
\* count, and leaves validRows.length records in the revision.
C13_ReportOfFreshImport ==
    (/\ runs[1].pc \in { "upload", "audit", "done" }
     /\ OnlyUpserts(runs[1].validRows)
     /\ NotCreatedBy(1) = {}) =>
        /\ runs[1].report = [ rowsCreated    |-> Len(runs[1].validRows),
                              rowsUpdated    |-> 0,
                              rowsDeleted    |-> 0,
                              warningCount   |-> Len(validation.warnings),
                              totalProcessed |-> Len(runs[1].validRows) ]
        /\ Cardinality(VersionRows(runs[1].boqVersionId)) = Len(runs[1].validRows)

\* the five rows of the numbering scenario, two of them section headers, have
\* been committed with their four warnings into a revision without records
C13_Witness ==
    /\ runs[1].pc = "done"
    /\ OnlyUpserts(runs[1].validRows)
    /\ NotCreatedBy(1) = {}
    /\ Len(runs[1].validRows) = 5
    /\ runs[1].report.rowsCreated = 5
    /\ runs[1].report.warningCount = 4
    /\ Cardinality(VersionRows(runs[1].boqVersionId)) = 5

(***************************************************************************)
(* Commits with failing calls: a db.boqRows call may throw, and storing    *)
(* the file may fail                                                       *)
(***************************************************************************)
\* the next row of the pass of run r makes a call of db.boqRows
NextRowCalls(r) ==
    \/ r.pc = "upsert"
    \/ /\ r.pc = "delete"
       /\ r.deleteRows[r.di].external_key # ""
       /\ r.deleteRows[r.di].external_key \in DOMAIN r.existingByKey

\* the failing call undone together with the creates before it
WriteFailsRollingBack(s) ==
    /\ NextRowCalls(runs[s])
    /\ runs' = [ runs EXCEPT ![s].pc = "failed" ]
    /\ boqRows' = [ id \in DOMAIN boqRows \ { c.id : c \in CreateCalls(runs[s].calls) } |-> boqRows[id] ]
    /\ UNCHANGED << roundingRule, boqVersions, nextId, importJobs, auditLogs, history >>
    /\ UNCHANGED fileVars

\* lines 42, 89, 92: the awaited delete, update or create rejects (database.ts
\* 297, 309, 319: if (error) throw error), and executeImport throws with it
WriteFails(s) ==
    /\ NextRowCalls(runs[s])
    /\ runs' = [ runs EXCEPT ![s].pc = "failed" ]
    /\ boqRows' = boqRows
    /\ UNCHANGED << roundingRule, boqVersions, nextId, importJobs, auditLogs, history >>
    /\ UNCHANGED fileVars

FaultInit ==
    /\ CommitInit
    /\ roundingRule = 2

\* the commits made one after the other, with calls that may fail
MaxFaultCommits == 1

FaultNext ==
    \/ Len(history) < MaxFaultCommits /\ \E t \in CommitTables : ChooseFile(t)
    \/ Validate
    \/ \E v \in Versions : StartCommit(v)
    \/ DeleteStep(1)
    \/ UpdateStep(1)
    \/ CreateStep(1)
    \/ WriteFails(1)
    \/ CreateJob(1)
    \/ UploadFile(1, TRUE)
    \/ UploadFile(1, FALSE)
    \/ WriteAudit(1)
    \/ Finish

FaultSpec == FaultInit /\ [][FaultNext]_vars

\* the DELETE rows before position di of run r that made a call
DeleteHits(r, di) ==
    { k \in 1..(di - 1) : /\ r.deleteRows[k].external_key # ""
                          /\ r.deleteRows[k].external_key \in DOMAIN r.existingByKey }

\* the last call of run r on each record is in the table
Persisted(r) ==
    \A k \in 1..Len(r.calls) :
       LastOnRecord(r, k) =>
          IF r.calls[k].op = "delete" THEN r.calls[k].id \notin DOMAIN boqRows
          ELSE /\ r.calls[k].id \in DOMAIN boqRows
               /\ \A f \in DOMAIN r.calls[k].data : boqRows[r.calls[k].id][f] = r.calls[k].data[f]

\* C14: when a create, update or delete call fails at a row of the pass, the
\* calls made are those for the rows before it, one for each (none for a
\* row after it), what they wrote is in the table, and the next thing that
\* happens is that the caller gets the failure, with the table as it is.
C14_NoRollbackNoFurtherWrite ==
    [][runs[1].pc = "failed" =>
          /\ Len(runs[1].calls)
               = Cardinality(DeleteHits(runs[1], runs[1].di)) + (runs[1].ui - 1)
          /\ Persisted(runs[1])
          /\ boqRows' = boqRows
          /\ history' = Append(history, [ validRows    |-> runs[1].validRows,
                                          boqVersionId |-> runs[1].boqVersionId,
                                          ok           |-> FALSE,
                                          report       |-> Null,
                                          calls        |-> runs[1].calls ])]_vars

\* the create for the third of five UPSERT rows has failed: two records
\* created, none for the rows after
C14_Witness ==
    /\ runs[1].pc = "failed"
    /\ Len(runs[1].upsertRows) = 5
    /\ runs[1].ui = 3
    /\ Len(runs[1].calls) = 2
    /\ Persisted(runs[1])
    /\ ~HasExisting(runs[1], runs[1].upsertRows[3])

\* the commits among the first k that ended with a report
OkUpTo(k) == Cardinality({ j \in 1..k : history[j].ok })

JobOf(boqVersionId, report, job) ==
    /\ job.status = "committed"
    /\ job.boq_version_id = boqVersionId
    /\ job.report_json = report

AuditOf(boqVersionId, report, entry) ==
    /\ entry.action_type = "import_committed"
    /\ entry.entity_type = "boq_version"
    /\ entry.entity_id = boqVersionId
    /\ entry.after_snapshot = report

PassOver(r) == r.di > Len(r.deleteRows) /\ r.ui > Len(r.upsertRows)

\* C15: there is one import job, committed and holding the report, for every
\* commit that returned a report, and after it one audit entry
\* import_committed for the target revision with the same report; the job is
\* created after all row writes and the entry after the job; a commit that
\* failed in a row write has neither.
C15_OneJobOneAuditPerReport ==
    /\ Len(importJobs) = OkUpTo(Len(history))
                         + (IF runs[1].pc \in { "upload", "audit", "done" } THEN 1 ELSE 0)
    /\ Len(auditLogs) = OkUpTo(Len(history)) + (IF runs[1].pc = "done" THEN 1 ELSE 0)
    /\ \A k \in 1..Len(history) :
          history[k].ok =>
             /\ history[k].report # Null
             /\ JobOf(history[k].boqVersionId, history[k].report, importJobs[OkUpTo(k)])
             /\ AuditOf(history[k].boqVersionId, history[k].report, auditLogs[OkUpTo(k)])
    /\ runs[1].pc \in { "upload", "audit", "done" } =>
          /\ PassOver(runs[1])
          /\ Persisted(runs[1])
          /\ runs[1].report = ReportOf(runs[1])
          /\ JobOf(runs[1].boqVersionId, runs[1].report, importJobs[Len(importJobs)])
    /\ runs[1].pc = "done" =>
          AuditOf(runs[1].boqVersionId, runs[1].report, auditLogs[Len(auditLogs)])

\* a commit with row writes has returned its report: one job, one entry
C15_Witness ==
    /\ runs[1].pc = "done"
    /\ Len(runs[1].calls) > 1
    /\ Len(importJobs) = 1
    /\ Len(auditLogs) = 1
    /\ importJobs[1].report_json = runs[1].report
    /\ auditLogs[1].after_snapshot = runs[1].report

\* C16: whether or not the file is stored, the step after importJobs.create
\* leaves the commit at the audit entry with its report and the rows as they
\* are, and the step after that appends the entry with this report and
\* returns it.
C16_UploadBestEffort ==
    [][/\ runs[1].pc = "upload" =>
            /\ runs'[1].pc = "audit"
            /\ runs'[1].report = runs[1].report
            /\ runs'[1].report = ReportOf(runs[1])
            /\ boqRows' = boqRows
            /\ Len(importJobs') = Len(importJobs)
       /\ runs[1].pc = "audit" =>
            /\ runs'[1].pc = "done"
            /\ runs'[1].report = runs[1].report
            /\ boqRows' = boqRows
            /\ Len(auditLogs') = Len(auditLogs) + 1
            /\ AuditOf(runs[1].boqVersionId, runs[1].report, auditLogs'[Len(auditLogs')])]_vars

\* a commit whose file could not be stored has returned its report, with the
\* audit entry written and its row writes in place
C16_Witness ==
    /\ runs[1].pc = "done"
    /\ importJobs[runs[1].jobId].file_path = NullKey
    /\ Len(runs[1].calls) > 1
    /\ Persisted(runs[1])
    /\ runs[1].report = ReportOf(runs[1])
    /\ AuditOf(runs[1].boqVersionId, runs[1].report, auditLogs[Len(auditLogs)])

DeleteCalls(calls) == { k \in 1..Len(calls) : calls[k].op = "delete" }

\* the delete calls of run r come before its create and update calls, in
\* file order, and no UPSERT row is taken up while DELETE rows remain
DeletesComeFirst(r) ==
    /\ \A j \in DeleteCalls(r.calls) : \A k \in Writes(r) : j < k
    /\ \A j \in DeleteCalls(r.calls) : \A k \in DeleteCalls(r.calls) :
          j < k => r.calls[j].row.rowIndex < r.calls[k].row.rowIndex
    /\ r.ui > 1 => r.di > Len(r.deleteRows)

\* rowsDeleted of run r counts its delete calls, one for each DELETE row so
\* far whose key the index of existing records holds
DeletesCounted(r) ==
    /\ r.deleted = Cardinality(DeleteCalls(r.calls))
    /\ r.deleted = Cardinality(DeleteHits(r, r.di))

\* the record of delete call k of run r is in the revision when the call is
\* made: no earlier call of the run has deleted it
DeletesExisting(r, k) == \A j \in DeleteCalls(r.calls) : j < k => r.calls[j].id # r.calls[k].id

\* C17: all DELETE rows are processed, in file order, before any create or
\* update; rowsDeleted is incremented, and a record deleted, exactly for the
\* DELETE rows whose key matches a record that exists when the row is
\* processed; a DELETE row whose key matches no record changes nothing.
C17_DeletesFirstAndCounted ==
    \A s \in Started :
       /\ DeletesComeFirst(runs[s])
       /\ DeletesCounted(runs[s])
       /\ \A k \in DeleteCalls(runs[s].calls) : DeletesExisting(runs[s], k)

KeysOf(validRows) == { validRows[k].external_key : k \in 1..Len(validRows) }

\* record id is out of reach of run r: it is of another revision, or has no
\* key, or has a key that no row of the file carries
OutOfReach(r, id) ==
    \/ boqRows[id].boq_version_id # r.boqVersionId
    \/ ~Truthy(boqRows[id].external_key)
    \/ boqRows[id].external_key \notin KeysOf(r.validRows)

\* C18: no step of a commit deletes or changes a record that has no external
\* key or whose key no row of the file carries (or that is of another
\* revision): the record keeps all its fields, sort_order and item_no
\* included.
C18_OtherRecordsUntouched ==
    [][\A id \in DOMAIN boqRows :
         (runs[1].pc = "idle" \/ OutOfReach(runs[1], id)) =>
            /\ id \in DOMAIN boqRows'
            /\ boqRows'[id] = boqRows[id]]_vars

\* a row with key K1 has been committed into the revision of the two AIDraft
\* records with key K2: a record was created, and the two are as they were
C18_Witness ==
    /\ runs[1].pc = "done"
    /\ runs[1].boqVersionId = "v1"
    /\ KeysOf(runs[1].validRows) = { "K1" }
    /\ Creates(runs[1].calls) # {}
    /\ { 1, 2 } \subseteq DOMAIN boqRows
    /\ boqRows[1] = AIDraftRows[1]
    /\ boqRows[2] = AIDraftRows[2]

(***************************************************************************)
(* Add-ons (src/lib/database.ts, calculateAddOns)                          *)
(***************************************************************************)
\* a + b
Plus(a, b) ==
    Num(a.num * Pow10(Max(a.dec, b.dec) - a.dec) + b.num * Pow10(Max(a.dec, b.dec) - b.dec),
        Max(a.dec, b.dec))

\* pct / 100
Percent(pct) == Num(pct.num, pct.dec + 2)

\* const round = (n) => Number(n.toFixed(config.rounding_rule))
round(n, config) == toFixed(n, config.rounding_rule)

\* every stage rounded before the next one compounds on it
calculateAddOnsRoundedStages(subtotal, config) ==
    LET prelims == round(Times(subtotal, Percent(config.prelims_pct)), config)
        baseWithPrelims == Plus(round(subtotal, config), prelims)
        contingency == round(Times(baseWithPrelims, Percent(config.contingency_pct)), config)
        baseWithContingency == Plus(baseWithPrelims, contingency)
        profit == round(Times(baseWithContingency, Percent(config.profit_pct)), config)
        baseWithProfit == Plus(baseWithContingency, profit)
        tax == round(Times(baseWithProfit, Percent(config.tax_pct)), config)
    IN  [ subtotal    |-> round(subtotal, config),
          prelims     |-> prelims,
          contingency |-> contingency,
          profit      |-> profit,
          tax         |-> tax,
          grandTotal  |-> Plus(baseWithProfit, tax) ]

calculateAddOns(subtotal, config) ==
    LET prelims == Times(subtotal, Percent(config.prelims_pct))
        baseWithPrelims == Plus(subtotal, prelims)
        contingency == Times(baseWithPrelims, Percent(config.contingency_pct))
        baseWithContingency == Plus(baseWithPrelims, contingency)
        profit == Times(baseWithContingency, Percent(config.profit_pct))
        baseWithProfit == Plus(baseWithContingency, profit)
        tax == Times(baseWithProfit, Percent(config.tax_pct))
        grandTotal == Plus(baseWithProfit, tax)
    IN  [ subtotal    |-> round(subtotal, config),
          prelims     |-> round(prelims, config),
          contingency |-> round(contingency, config),
          profit      |-> round(profit, config),
          tax         |-> round(tax, config),
          grandTotal  |-> round(grandTotal, config) ]

\* The inputs of calculateAddOns: subtotals, percentages and rounding rules
\* on which the doubles of the program round to the same side as the exact
\* values (a product that falls exactly between two rounded values may reach
\* the double below it, as 13.75 * 0.06 does)
AddOnSubtotals == { Num(0, 0), Num(1000, 0), Num(80, 0), Num(5, 1) }

PrelimsPcts == { Num(0, 0), Num(10, 0), Num(20, 0) }

ContingencyPcts == { Num(0, 0), Num(5, 0) }

ProfitPcts == { Num(0, 0), Num(10, 0) }

TaxPcts == { Num(0, 0), Num(6, 0), Num(8, 0) }

AddOnConfigs ==
    [ prelims_pct : PrelimsPcts, contingency_pct : ContingencyPcts, profit_pct : ProfitPcts,
      tax_pct : TaxPcts, rounding_rule : RoundingRules ]

\* no file loaded, an empty database and no import under way
NothingImported ==
    /\ headers = << >>
    /\ rows = << >>
    /\ mapping = EmptyMapping
    /\ validation = Null
    /\ wizard = ClosedWizard
    /\ roundingRule = 2
    /\ boqVersions = << >>
    /\ boqRows = << >>
    /\ nextId = 1
    /\ importJobs = << >>
    /\ auditLogs = << >>
    /\ runs = [ s \in Sessions |-> NoRun ]
    /\ history = << >>

AddOnsInit ==
    /\ summary \in [ subtotal : AddOnSubtotals, config : AddOnConfigs, addOns : { Null } ]
    /\ phase = "summary"
    /\ NothingImported

\* const addOns = calculateAddOns(subtotal, addOnConfig)
CalculateAddOns ==
    /\ phase = "summary"
    /\ summary.addOns = Null
    /\ summary' = [ summary EXCEPT !.addOns = calculateAddOns(summary.subtotal, summary.config) ]
    /\ UNCHANGED << headers, rows, mapping, validation, phase, wizard >>
    /\ UNCHANGED storeVars

AddOnsNext == CalculateAddOns

AddOnsSpec == AddOnsInit /\ [][AddOnsNext]_vars

\* 1 + pct / 100
Growth(pct) == Plus(Num(1, 0), Percent(pct))

\* a has at most digits decimals and no number with digits decimals is
\* nearer to x
RoundedTo(a, x, digits) ==
    /\ a.dec <= digits
    /\ 2 * Abs(x.num * Pow10(Max(x.dec, digits) - x.dec) - a.num * Pow10(Max(x.dec, digits) - a.dec))
         <= Pow10(Max(x.dec, digits) - digits)

\* the running totals of the cascade, each the one before grown by its
\* percentage, none of them rounded
RunningTotals(subtotal, config) ==
    [ prelims     |-> Times(subtotal, Growth(config.prelims_pct)),
      contingency |-> Times(Times(subtotal, Growth(config.prelims_pct)), Growth(config.contingency_pct)),
      profit      |-> Times(Times(Times(subtotal, Growth(config.prelims_pct)), Growth(config.contingency_pct)), Growth(config.profit_pct)),
      tax         |-> Times(Times(Times(Times(subtotal, Growth(config.prelims_pct)), Growth(config.contingency_pct)), Growth(config.profit_pct)), Growth(config.tax_pct)) ]

IsCascade(a, subtotal, config, base) ==
    /\ RoundedTo(a.subtotal, subtotal, config.rounding_rule)
    /\ RoundedTo(a.prelims, Times(subtotal, Percent(config.prelims_pct)), config.rounding_rule)
    /\ RoundedTo(a.contingency, Times(base.prelims, Percent(config.contingency_pct)), config.rounding_rule)
    /\ RoundedTo(a.profit, Times(base.contingency, Percent(config.profit_pct)), config.rounding_rule)
    /\ RoundedTo(a.tax, Times(base.profit, Percent(config.tax_pct)), config.rounding_rule)
    /\ RoundedTo(a.grandTotal, base.tax, config.rounding_rule)

\* subtotal 1000 with 10/5/10/6 percent and 2 decimals
ExampleAddOns ==
    /\ summary.subtotal = Num(1000, 0)
    /\ summary.config = [ prelims_pct |-> Num(10, 0), contingency_pct |-> Num(5, 0),
                          profit_pct |-> Num(10, 0), tax_pct |-> Num(6, 0), rounding_rule |-> 2 ]

\* C19: calculateAddOns is a sequential cascade: prelims is the percentage of
\* the subtotal, contingency that of subtotal + prelims, profit that of the
\* total with contingency, tax that of the total with profit, grandTotal the
\* total with tax, all unrounded, and each of the six outputs is a nearest
\* number with rounding_rule decimals to its unrounded value; subtotal 1000
\* with 10/5/10/6 percent at 2 decimals gives 100, 55, 115.5, 76.23, 1346.73.
C19_AddOnsCascade ==
    (phase = "summary" /\ summary.addOns # Null) =>
        /\ IsCascade(summary.addOns, summary.subtotal, summary.config,
                     RunningTotals(summary.subtotal, summary.config))
        /\ ExampleAddOns =>
             summary.addOns = [ subtotal |-> Num(1000, 0), prelims |-> Num(100, 0),
                                contingency |-> Num(55, 0), profit |-> Num(1155, 1),
                                tax |-> Num(7623, 2), grandTotal |-> Num(134673, 2) ]

\* the example has been calculated
C19_Witness ==
    /\ phase = "summary"
    /\ ExampleAddOns
    /\ summary.addOns # Null
    /\ summary.addOns.grandTotal = Num(134673, 2)

(***************************************************************************)
(* Subtotals (src/lib/database.ts, calculateSubtotals)                     *)
(***************************************************************************)
\* the function-valued members every object literal inherits from
\* Object.prototype
ObjectPrototypeKeys ==
    { "constructor", "toString", "toLocaleString", "valueOf", "hasOwnProperty",
      "isPrototypeOf", "propertyIsEnumerable" }

\* an inherited member: a native function
NativeFunction(key) == [ function |-> key ]

IsNumber(v) == "num" \in DOMAIN v

\* obj[key] || 0 for an object literal holding numbers and strings: an own
\* property first, then the prototype's, then undefined
GetOr0(obj, key) ==
    IF key \in DOMAIN obj THEN obj[key]
    ELSE IF key \in ObjectPrototypeKeys THEN NativeFunction(key)
    ELSE Num(0, 0)

\* v + amount: the sum of two numbers, and for a function or a string on
\* the left the string that ends with the digits of amount
Added(v, amount) == IF IsNumber(v) THEN Plus(v, amount) ELSE [ string |-> << v, amount >> ]

\* obj[key] = v
Put(obj, key, v) == [ k \in DOMAIN obj \cup { key } |-> IF k = key THEN v ELSE obj[k] ]

\* the body of the loop over the rows
AddRow(totals, row) ==
    IF row.row_type = "LineItem" /\ row.amount # Null
    THEN [ bySection  |-> IF Truthy(row.section)
                          THEN Put(totals.bySection, row.section, Added(GetOr0(totals.bySection, row.section), row.amount))
                          ELSE totals.bySection,
           byCategory |-> IF Truthy(row.category)
                          THEN Put(totals.byCategory, row.category, Added(GetOr0(totals.byCategory, row.category), row.amount))
                          ELSE totals.byCategory,
           grandTotal |-> Plus(totals.grandTotal, row.amount) ]
    ELSE totals

RECURSIVE Totalled(_, _, _)
Totalled(records, i, totals) ==
    IF i > Len(records) THEN totals
    ELSE Totalled(records, i + 1, AddRow(totals, records[i]))

\* what a call of toFixed on a value that is not a number throws
TypeError == [ threw |-> "TypeError" ]

\* the three rounding statements at the end
RoundedTotals(totals, rounding) ==
    IF \E key \in DOMAIN totals.bySection : ~IsNumber(totals.bySection[key]) THEN TypeError
    ELSE IF \E key \in DOMAIN totals.byCategory : ~IsNumber(totals.byCategory[key]) THEN TypeError
    ELSE [ bySection  |-> [ key \in DOMAIN totals.bySection |-> toFixed(totals.bySection[key], rounding) ],
           byCategory |-> [ key \in DOMAIN totals.byCategory |-> toFixed(totals.byCategory[key], rounding) ],
           grandTotal |-> toFixed(totals.grandTotal, rounding) ]

calculateSubtotals(records, rounding) ==
    RoundedTotals(Totalled(records, 1, [ bySection |-> << >>, byCategory |-> << >>, grandTotal |-> Num(0, 0) ]),
                  rounding)

\* the fields of a BoQRow that calculateSubtotals reads
BoQRow(rowType, section, category, amount) ==
    [ row_type |-> rowType, section |-> section, category |-> category, amount |-> amount ]

\* records of both types, with and without section, category and amount;
\* the amounts and their sums are numbers that doubles hold exactly
SummaryRows ==
    { BoQRow("LineItem", "A", "Material", Num(25, 0)),
      BoQRow("LineItem", "A", "Labour", Num(125, 2)),
      BoQRow("LineItem", "B", "Material", Num(5, 1)),
      BoQRow("LineItem", "", "", Num(25, 0)),
      BoQRow("LineItem", "A", "Material", Null),
      BoQRow("SectionHeader", "A", "", Null),
      BoQRow("SectionHeader", "B", "Material", Num(25, 0)),
      BoQRow("LineItem", "constructor", "Material", Num(5, 1)) }

MaxSummaryRows == 3

SummaryRowLists == UNION { [1..n -> SummaryRows] : n \in 0..MaxSummaryRows }

SubtotalsInit ==
    /\ summary \in [ rows : SummaryRowLists, roundingRule : RoundingRules, subtotals : { Null } ]
    /\ phase = "subtotals"
    /\ NothingImported

\* const subtotals = calculateSubtotals(rows, roundingRule)
CalculateSubtotals ==
    /\ phase = "subtotals"
    /\ summary.subtotals = Null
    /\ summary' = [ summary EXCEPT !.subtotals = calculateSubtotals(summary.rows, summary.roundingRule) ]
    /\ UNCHANGED << headers, rows, mapping, validation, phase, wizard >>
    /\ UNCHANGED storeVars

SubtotalsNext == CalculateSubtotals

SubtotalsSpec == SubtotalsInit /\ [][SubtotalsNext]_vars

\* the positions of the LineItem rows that have an amount
Counted(records) ==
    { i \in 1..Len(records) : records[i].row_type = "LineItem" /\ records[i].amount # Null }

\* the sum of the amounts at the positions in a set
RECURSIVE SumAt(_, _)
SumAt(records, positions) ==
    IF positions = {} THEN Num(0, 0)
    ELSE Plus(records[CHOOSE i \in positions : TRUE].amount,
              SumAt(records, positions \ { CHOOSE i \in positions : TRUE }))

InSection(records, name) == { i \in Counted(records) : records[i].section = name }

InCategory(records, name) == { i \in Counted(records) : records[i].category = name }

SectionsOf(records) == { records[i].section : i \in Counted(records) } \ { "" }

CategoriesOf(records) == { records[i].category : i \in Counted(records) } \ { "" }

IsSubtotals(t, records, rounding) ==
    /\ t # TypeError
    /\ RoundedTo(t.grandTotal, SumAt(records, Counted(records)), rounding)
    /\ DOMAIN t.bySection = SectionsOf(records)
    /\ \A name \in SectionsOf(records) :
         RoundedTo(t.bySection[name], SumAt(records, InSection(records, name)), rounding)
    /\ DOMAIN t.byCategory = CategoriesOf(records)
    /\ \A name \in CategoriesOf(records) :
         RoundedTo(t.byCategory[name], SumAt(records, InCategory(records, name)), rounding)

\* C20: for every list of records calculateSubtotals returns the sum of the
\* amounts of the LineItem rows as grand subtotal, for each section of a
\* LineItem row the sum over the LineItem rows of that section, for each
\* category the sum over the LineItem rows of that category, SectionHeader
\* rows adding nothing, each sum rounded once to the given decimals.
C20_SubtotalsOfLineItems ==
    (phase = "subtotals" /\ summary.subtotals # Null) =>
        IsSubtotals(summary.subtotals, summary.rows, summary.roundingRule)

(***************************************************************************)
(* Further properties of the row validator                                 *)
(***************************************************************************)
\* digits with at most one decimal point among them
IsPlainDecimal(str) ==
    /\ \E k \in 1..Len(str) : IsDigit(CharAt(str, k))
    /\ \A k \in 1..Len(str) : IsDigit(CharAt(str, k)) \/ CharAt(str, k) = "."
    /\ Cardinality({ k \in 1..Len(str) : CharAt(str, k) = "." }) <= 1

\* the row type the validator works with for a row
ReadRowType(csvRow, m) ==
    IF getMappedValue(csvRow, m, "row_type") = "" THEN "LineItem"
    ELSE getMappedValue(csvRow, m, "row_type")

HasError(i, field) == \E k \in 1..Len(validation.errors) : validation.errors[k] = Issue(i, field, "error")

ValidRowAt(i) == validation.validRows[CHOOSE k \in 1..Len(validation.validRows) : validation.validRows[k].rowIndex = i]

NumberChecked(i, field) ==
    IF ReadRowType(rows[i + 1], mapping) = "LineItem"
    THEN IF getMappedValue(rows[i + 1], mapping, field) = ""
         THEN /\ ~HasError(i, field)
              /\ i \in ValidIndexes => ValidRowAt(i)[field] = Null
         ELSE ~IsPlainDecimal(getMappedValue(rows[i + 1], mapping, field)) =>
                 HasError(i, field) /\ i \notin ValidIndexes
    ELSE ~HasError(i, field)

\* C21: in an input within the row limit, a LineItem row's qty or rate cell
\* that is not empty and is not a plain non-negative decimal number has an
\* error on that field and the row is left out of validRows; an empty cell
\* has no error and validates to null; a SectionHeader row has no qty or
\* rate error.
C21_NumbersChecked ==
    (phase = "validated" /\ Len(rows) <= MAX_ROWS) =>
        \A i \in 0..(Len(rows) - 1) : NumberChecked(i, "qty") /\ NumberChecked(i, "rate")

\* the letters d, e, l, e, t, e in either case
SpellsDelete(str) ==
    /\ Len(str) = 6
    /\ CharAt(str, 1) \in { "d", "D" }
    /\ CharAt(str, 2) \in { "e", "E" }
    /\ CharAt(str, 3) \in { "l", "L" }
    /\ CharAt(str, 4) \in { "e", "E" }
    /\ CharAt(str, 5) \in { "t", "T" }
    /\ CharAt(str, 6) \in { "e", "E" }

\* the action cell as the file holds it, "" when there is none
ActionCell(csvRow, m) ==
    IF "action" \in DOMAIN m /\ m["action"] + 1 \in DOMAIN csvRow THEN csvRow[m["action"] + 1] ELSE ""

\* C22 as stated: a valid row has action DELETE only when its action cell
\* holds DELETE, and UPSERT otherwise; no row without DELETE in its action
\* cell has an error on action.
C22_DeleteOnlyWhenCellIsDelete ==
    phase = "validated" =>
        \A i \in 0..(Len(rows) - 1) :
            /\ i \in ValidIndexes =>
                 ValidRowAt(i).action = (IF ActionCell(rows[i + 1], mapping) = "DELETE" THEN "DELETE" ELSE "UPSERT")
            /\ ActionCell(rows[i + 1], mapping) # "DELETE" => ~HasError(i, "action")

\* C22: the validated action of a row is DELETE exactly when its action
\* cell, without the white space around it, spells delete in any mix of
\* upper and lower case; it is UPSERT for an empty cell and for every other
\* value, and such a row never has an error on action.
C22_DeleteWhenCellSpellsDelete ==
    phase = "validated" =>
        \A i \in 0..(Len(rows) - 1) :
            /\ i \in ValidIndexes =>
                 ValidRowAt(i).action = (IF SpellsDelete(getMappedValue(rows[i + 1], mapping, "action")) THEN "DELETE" ELSE "UPSERT")
            /\ ~SpellsDelete(getMappedValue(rows[i + 1], mapping, "action")) => ~HasError(i, "action")

\* a row whose action cell holds delete in lower case has been validated as
\* a DELETE row
C22_Witness ==
    /\ phase = "validated"
    /\ Len(rows) = 1
    /\ ActionCell(rows[1], mapping) = "delete"
    /\ Len(validation.validRows) = 1
    /\ validation.validRows[1].action = "DELETE"

(***************************************************************************)
(* CSV parser (src/lib/csv-parser.ts, parseCSV)                            *)
(***************************************************************************)
Quote == "\""

\* current.some((c) => c !== '')
SomeCell(current) == \E k \in 1..Len(current) : current[k] # ""

\* current.push(field.trim()); if (current.some(...)) rows.push(current)
EndOfRow(table, current, field) ==
    IF SomeCell(Append(current, trim(field))) THEN Append(table, Append(current, trim(field)))
    ELSE table

\* the loop over the characters from position i on (1-based), and the
\* statements after it for the last row (lines 13-56)
RECURSIVE Scan(_, _, _, _, _, _)
Scan(cleaned, i, table, current, field, inQuotes) ==
    IF i > Len(cleaned) THEN EndOfRow(table, current, field)
    ELSE IF inQuotes
    THEN IF CharAt(cleaned, i) = Quote /\ i < Len(cleaned) /\ CharAt(cleaned, i + 1) = Quote
         THEN Scan(cleaned, i + 2, table, current, field \o Quote, TRUE)
         ELSE IF CharAt(cleaned, i) = Quote
         THEN Scan(cleaned, i + 1, table, current, field, FALSE)
         ELSE Scan(cleaned, i + 1, table, current, field \o CharAt(cleaned, i), TRUE)
    ELSE IF CharAt(cleaned, i) = Quote
         THEN Scan(cleaned, i + 1, table, current, field, TRUE)
         ELSE IF CharAt(cleaned, i) = ","
         THEN Scan(cleaned, i + 1, table, Append(current, trim(field)), "", FALSE)
         ELSE IF CharAt(cleaned, i) = "\r" /\ i < Len(cleaned) /\ CharAt(cleaned, i + 1) = "\n"
         THEN Scan(cleaned, i + 2, EndOfRow(table, current, field), << >>, "", FALSE)
         ELSE IF CharAt(cleaned, i) = "\n"
         THEN Scan(cleaned, i + 1, EndOfRow(table, current, field), << >>, "", FALSE)
         ELSE Scan(cleaned, i + 1, table, current, field \o CharAt(cleaned, i), FALSE)

\* the row as it was parsed, of whatever length
AsParsed(row, n) == row

\* lines 65-70: the row padded with empty strings or cut to n cells
PadOrCut(row, n) == [ j \in 1..n |-> IF j <= Len(row) THEN row[j] ELSE "" ]

\* lines 58-72
TableOf(table) ==
    IF Len(table) = 0 THEN [ headers |-> << >>, rows |-> << >> ]
    ELSE [ headers |-> table[1],
           rows    |-> [ k \in 1..(Len(table) - 1) |-> PadOrCut(table[k + 1], Len(table[1])) ] ]

\* parseCSV; the byte order mark that line 7 removes is in no text of the
\* pool
parseCSV(text) == TableOf(Scan(text, 1, << >>, << >>, "", FALSE))

\* The texts handed to parseCSV: all strings of up to MaxTextLen characters
\* over a letter, the comma, the quote, the two line break characters and
\* the space
CsvChars == { "a", ",", Quote, "\n", "\r", " " }

MaxTextLen == 5

RECURSIVE TextsOfLen(_)
TextsOfLen(n) == IF n = 0 THEN { "" } ELSE { t \o c : t \in TextsOfLen(n - 1), c \in CsvChars }

CsvTexts == UNION { TextsOfLen(n) : n \in 0..MaxTextLen }

ParserInit ==
    /\ wizard \in { [ ClosedWizard EXCEPT !.step = 1, !.reading = { text } ] : text \in CsvTexts }
    /\ headers = << >>
    /\ rows = << >>
    /\ mapping = EmptyMapping
    /\ validation = Null
    /\ phase = "text"
    /\ summary = Null
    /\ roundingRule = 2
    /\ boqVersions = << >>
    /\ boqRows = << >>
    /\ nextId = 1
    /\ importJobs = << >>
    /\ auditLogs = << >>
    /\ runs = [ s \in Sessions |-> NoRun ]
    /\ history = << >>

\* const parsed = parseCSV(text)
ParseText(text) ==
    /\ phase = "text"
    /\ headers' = parseCSV(text).headers
    /\ rows' = parseCSV(text).rows
    /\ phase' = "parsed"
    /\ UNCHANGED << mapping, validation, wizard, summary >>
    /\ UNCHANGED storeVars

ParserNext == \E text \in wizard.reading : ParseText(text)

ParserSpec == ParserInit /\ [][ParserNext]_vars

\* the text that was parsed
TextRead == CHOOSE text \in wizard.reading : TRUE

\* position i lies outside quotes: an even number of quotes precedes it
QuotesBefore(text, i) == Cardinality({ j \in 1..(i - 1) : CharAt(text, j) = Quote })

Outside(text, i) == QuotesBefore(text, i) % 2 = 0

\* the line breaks and the commas that lie outside quotes
RowBreaks(text) == { i \in 1..Len(text) : CharAt(text, i) = "\n" /\ Outside(text, i) }

CellBreaks(text) == { i \in 1..Len(text) : CharAt(text, i) = "," /\ Outside(text, i) }

\* what the character at position i adds to its cell: itself, nothing for
\* a quote that opens or closes, one quote for a doubled quote inside quotes
Adds(text, i) ==
    IF CharAt(text, i) # Quote THEN CharAt(text, i)
    ELSE IF ~Outside(text, i) /\ i < Len(text) /\ CharAt(text, i + 1) = Quote THEN Quote
    ELSE ""

RECURSIVE CellText(_, _, _)
CellText(text, lo, hi) == IF lo > hi THEN "" ELSE Adds(text, lo) \o CellText(text, lo + 1, hi)

\* the pieces of lo..hi between the positions of a set, in order
RECURSIVE Pieces(_, _, _)
Pieces(breaks, lo, hi) ==
    IF \E b \in breaks : lo <= b /\ b <= hi
    THEN << << lo, (CHOOSE b \in breaks : lo <= b /\ b <= hi /\ \A c \in breaks : c < b => c < lo) - 1 >> >>
         \o Pieces(breaks, (CHOOSE b \in breaks : lo <= b /\ b <= hi /\ \A c \in breaks : c < b => c < lo) + 1, hi)
    ELSE << << lo, hi >> >>

\* the cells of one line of the text
CellsOf(text, line) ==
    [ k \in 1..Len(Pieces(CellBreaks(text), line[1], line[2])) |->
        trim(CellText(text, Pieces(CellBreaks(text), line[1], line[2])[k][1],
                            Pieces(CellBreaks(text), line[1], line[2])[k][2])) ]

\* the lines of the text, each as its cells
LinesOf(text) ==
    [ k \in 1..Len(Pieces(RowBreaks(text), 1, Len(text))) |->
        CellsOf(text, Pieces(RowBreaks(text), 1, Len(text))[k]) ]

\* the subsequence of the lines that have a cell that is not empty
RECURSIVE Filled(_, _)
Filled(lines, k) ==
    IF k > Len(lines) THEN << >>
    ELSE (IF SomeCell(lines[k]) THEN << lines[k] >> ELSE << >>) \o Filled(lines, k + 1)

Rectangular == \A k \in 1..Len(rows) : Len(rows[k]) = Len(headers)

\* row k is the k-th filled line after the first, padded or cut
FromFilledLines(filled) ==
    /\ Len(filled) = 0 => headers = << >> /\ rows = << >>
    /\ Len(filled) > 0 =>
         /\ headers = filled[1]
         /\ Len(rows) = Len(filled) - 1
         /\ \A k \in 1..Len(rows) : \A j \in 1..Len(headers) :
              rows[k][j] = (IF j <= Len(filled[k + 1]) THEN filled[k + 1][j] ELSE "")

\* C23 as stated: the table is rectangular, no returned row consists only
\* of empty cells, and cells are split at commas and line breaks outside
\* quotes only, a doubled quote inside quotes giving one quote.
C23_RectangularNoEmptyRow ==
    phase = "parsed" =>
        /\ Rectangular
        /\ \A k \in 1..Len(rows) : SomeCell(rows[k])
        /\ FromFilledLines(Filled(LinesOf(TextRead), 1))

\* C23: the table is rectangular; its header row and its data rows are, in
\* order, the lines of the text that have a non-empty cell, split at the
\* commas and line breaks outside quotes only, with a doubled quote inside
\* quotes read as one quote, each data row padded with empty cells or cut to
\* the header's length (a line is dropped when all its cells are empty
\* before it is cut, so a returned row can be empty in every cell).
C23_RectangularFilledLines ==
    phase = "parsed" =>
        /\ Rectangular
        /\ FromFilledLines(Filled(LinesOf(TextRead), 1))

\* the text of one quoted cell that holds a comma and a doubled quote has
\* been parsed as a header row of one cell
C23_Witness ==
    /\ phase = "parsed"
    /\ TextRead = Quote \o "," \o Quote \o Quote \o Quote
    /\ headers = << "," \o Quote >>
    /\ rows = << >>

(***************************************************************************)
(* Two sessions committing into one revision at the same time              *)
(***************************************************************************)
ConcurrentTables == { << PourRow >>, << GoodRow, PourRow >>, << DeleteRow, PourRow >> }

ConcurrentInit ==
    /\ CommitInit
    /\ roundingRule = 2
    /\ boqRows \in { << >>, SeededRows }

\* the validation results of the files of the sessions
ConcurrentFiles == { validateImportRows(t, FullMapping) : t \in ConcurrentTables }

\* handleCommit in the browser of session s: executeImport is called with
\* the valid rows of the session's file for revision v1
CommitIn(s, file) ==
    /\ BeginImport(s, file.validRows, "v1", Len(file.warnings), ImportFile)
    /\ UNCHANGED fileVars

\* the next step of the pass of session s
PassStep(s) ==
    \/ DeleteStep(s)
    \/ UpdateStep(s)
    \/ CreateStep(s)
    \/ CreateJob(s)
    \/ UploadFile(s, TRUE)
    \/ WriteAudit(s)

ConcurrentNext ==
    \/ \E s \in Sessions, file \in ConcurrentFiles : CommitIn(s, file)
    \/ \E s \in Sessions : DeleteStep(s)
    \/ \E s \in Sessions : UpdateStep(s)
    \/ \E s \in Sessions : CreateStep(s)
    \/ \E s \in Sessions : CreateJob(s)
    \/ \E s \in Sessions : UploadFile(s, TRUE)
    \/ \E s \in Sessions : WriteAudit(s)

ConcurrentSpec == ConcurrentInit /\ [][ConcurrentNext]_vars

UnderWay(s) == runs[s].pc \in { "delete", "upsert", "job", "upload", "audit" }

\* the keys of the UPSERT rows of a pass that its read did not find
NewKeys(r) ==
    { r.upsertRows[k].external_key : k \in 1..Len(r.upsertRows) } \ (DOMAIN r.existingByKey \cup { "" })

CreatedWithKey(r, key) ==
    { r.calls[k].id : k \in { j \in 1..Len(r.calls) : r.calls[j].op = "create" /\ r.calls[j].data.external_key = key } }

\* C24: no pass waits for another: a session can begin a pass on the
\* revision and take every step of it whatever the pass of the other
\* session is doing; and when both passes have read the revision without a
\* key that both upsert, each of them creates a record of its own for it,
\* so the revision ends with two records for the key.
C24_NoLock ==
    \A s \in Sessions :
        /\ runs[s].pc = "idle" => \A file \in ConcurrentFiles : ENABLED CommitIn(s, file)
        /\ UnderWay(s) => ENABLED PassStep(s)
        /\ \A o \in Sessions \ { s } :
             (runs[s].pc = "done" /\ runs[o].pc = "done") =>
                \A key \in NewKeys(runs[s]) \cap NewKeys(runs[o]) :
                    /\ CreatedWithKey(runs[s], key) # {}
                    /\ CreatedWithKey(runs[o], key) # {}
                    /\ CreatedWithKey(runs[s], key) \cap CreatedWithKey(runs[o], key) = {}
                    /\ CreatedWithKey(runs[s], key) \cup CreatedWithKey(runs[o], key) \subseteq VersionRows("v1")

\* both sessions have committed the row of key K2 into the empty revision:
\* it holds two records of key K2, with one sort_order and one item number
C24_Witness ==
    /\ runs[1].pc = "done"
    /\ runs[2].pc = "done"
    /\ runs[1].validRows = runs[2].validRows
    /\ Len(runs[1].validRows) = 1
    /\ Cardinality(VersionRows("v1")) = 2
    /\ \A id \in VersionRows("v1") :
         /\ boqRows[id].external_key = "K2"
         /\ boqRows[id].sort_order = 0
         /\ boqRows[id].item_no = "1"

(***************************************************************************)
(* Further properties of the commits                                       *)
(***************************************************************************)
\* the key of call k of a pass was deleted by an earlier call of the pass
DeletedEarlier(r, k) ==
    \E j \in 1..(k - 1) : r.calls[j].op = "delete" /\ r.calls[j].row.external_key = r.calls[k].row.external_key

\* C25: no commit fails on an update: every update it issues targets a
\* record that is in the revision at that moment, and an UPSERT row whose
\* key a DELETE row of the same commit deleted before is written by a
\* create.
C25_UpdateTargetsExist ==
    \A s \in Started :
        /\ runs[s].pc # "failed"
        /\ \A k \in Writes(runs[s]) : DeletedEarlier(runs[s], k) => runs[s].calls[k].op = "create"

\* the records that the delete calls of a pass removed
RemovedBy(r) == { r.calls[k].id : k \in DeleteCalls(r.calls) }

\* C26: in every report of a commit, rowsDeleted is the number of records
\* that the commit removed from the revision, also when DELETE rows of the
\* file repeat a key.
C26_DeletedCountsRemovedRecords ==
    \A s \in Started :
        runs[s].report # Null => runs[s].report.rowsDeleted = Cardinality(RemovedBy(runs[s]))

\* the number of rows of a list with an action
CountOf(validRows, action) == Cardinality({ k \in 1..Len(validRows) : validRows[k].action = action })

\* the counts of a report add up
CountsAddUp(r) ==
    /\ r.report.rowsCreated + r.report.rowsUpdated = CountOf(r.validRows, "UPSERT")
    /\ r.report.rowsDeleted <= CountOf(r.validRows, "DELETE")
    /\ r.report.rowsCreated + r.report.rowsUpdated + r.report.rowsDeleted <= r.report.totalProcessed

\* every DELETE row of the pass found a record and removed it
EveryDeleteMatched(r) == Cardinality(RemovedBy(r)) = CountOf(r.validRows, "DELETE")

\* C27: in every report of a commit, rowsCreated + rowsUpdated is the
\* number of UPSERT rows, rowsDeleted is at most the number of DELETE rows,
\* the three counts sum to at most totalProcessed, and they sum to
\* totalProcessed exactly when every DELETE row matched a record that was in
\* the revision.
C27_ReportCounts ==
    \A s \in Started :
        runs[s].report # Null =>
            /\ CountsAddUp(runs[s])
            /\ (runs[s].report.rowsCreated + runs[s].report.rowsUpdated + runs[s].report.rowsDeleted
                  = runs[s].report.totalProcessed) <=> EveryDeleteMatched(runs[s])

(***************************************************************************)
(* Export (src/lib/export.ts) and the records read back                    *)
(***************************************************************************)
\* getByVersionId: the ids of the revision's records in ascending
\* sort_order, in each order that equal values allow
getByVersionId(v) ==
    { seq \in [ 1..Cardinality(VersionRows(v)) -> VersionRows(v) ] :
        /\ \A i, j \in DOMAIN seq : i # j => seq[i] # seq[j]
        /\ \A i, j \in DOMAIN seq : i < j => boqRows[seq[i]].sort_order <= boqRows[seq[j]].sort_order }

\* the loop of generateItemNo from i on (0-based)
RECURSIVE CountedTo(_, _, _, _, _)
CountedTo(records, i, index, sectionCount, itemInSection) ==
    IF i > index
    THEN IF sectionCount > 0 THEN ToString(sectionCount) \o "." \o ToString(itemInSection)
         ELSE ToString(itemInSection)
    ELSE IF records[i + 1].row_type = "SectionHeader"
         THEN CountedTo(records, i + 1, index, sectionCount + 1, 0)
         ELSE CountedTo(records, i + 1, index, sectionCount, itemInSection + 1)

generateItemNo(records, index) ==
    IF records[index + 1].row_type = "SectionHeader" THEN ""
    ELSE CountedTo(records, 0, index, 0, 0)

\* the ids of the records that a pass created, in the order of its calls
CreatedIds(r) == [ k \in 1..Len(r.calls) |-> r.calls[k].id ]

\* the pass wrote UPSERT rows only, into a revision that had no record
IntoEmptyRevision(r) ==
    /\ r.pc = "done"
    /\ Len(r.deleteRows) = 0
    /\ \A k \in 1..Len(r.calls) : r.calls[k].op = "create"
    /\ VersionRows(r.boqVersionId) = { r.calls[k].id : k \in 1..Len(r.calls) }

\* C28: after a commit of UPSERT rows into a revision that had no record,
\* the rows' records in file order are the records read back in sort_order,
\* in the one order that their distinct values 0, 1, ..., n-1 allow, and the
\* item number stored on each is the one generateItemNo derives for its
\* position in that list.
C28_StoredItemNoIsExportItemNo ==
    \A s \in Started :
        IntoEmptyRevision(runs[s]) =>
            LET seq == CreatedIds(runs[s])
            IN  /\ seq \in getByVersionId(runs[s].boqVersionId)
                /\ Len(seq) = Len(runs[s].upsertRows)
                /\ \A k \in 1..Len(seq) :
                     /\ boqRows[seq[k]].sort_order = k - 1
                     /\ boqRows[seq[k]].item_no = generateItemNo([ j \in 1..Len(seq) |-> boqRows[seq[j]] ], k - 1)

\* the file of two sections has been committed into the empty revision:
\* the five records carry "", "1.1", "1.2", "" and "2.1"
C28_Witness ==
    /\ runs[1].pc = "done"
    /\ IntoEmptyRevision(runs[1])
    /\ Len(runs[1].calls) = 5
    /\ [ k \in 1..5 |-> boqRows[runs[1].calls[k].id].item_no ] = << "", "1.1", "1.2", "", "2.1" >>

(***************************************************************************)
(* The wizard on its page: a second file may be dropped while the first is *)
(* still being read, and a version may be frozen while the wizard is open  *)
(***************************************************************************)
\* the files that FileReaders read at one time on the page
MaxOverlappingReads == 2

PageNext ==
    \/ WizardNext
    \/ \E file \in WizardFiles : ProcessFileOf(file, MaxOverlappingReads)
    \/ \E v \in { "v1", "v2", "v3" } : FreezeVersion(v)

PageSpec == WizardInit /\ [][PageNext]_vars

(***************************************************************************)
(* The table, the mapping and the validation result that the wizard holds  *)
(***************************************************************************)
\* canProceed at the mapping step
DescriptionMapped == "description" \in DOMAIN mapping /\ mapping["description"] # -1

\* the Commit Import button would hand validation.validRows to executeImport
CommitOffered == wizard.step = 3 /\ ~wizard.committing /\ validation # Null /\ NextEnabled

\* C29: whenever the wizard offers the commit, the validation result it
\* holds is the one of validating the table now loaded with the mapping now
\* shown, in which description is mapped: no result of an earlier file or of
\* an earlier mapping is handed to executeImport.
C29_CommitsCurrentValidation ==
    CommitOffered =>
        /\ DescriptionMapped
        /\ wizard.parsed
        /\ validation = validateImportRows(rows, mapping)

(***************************************************************************)
(* The target of the wizard's commit and the version list                  *)
(***************************************************************************)
\* this step is handleCommit calling executeImport
CommitStarts == runs[1].pc = "idle" /\ runs'[1].pc # "idle"

\* C30: the wizard never starts a commit against a revision that is frozen
\* in the version list it holds at that moment, be the target a revision just
\* created or one chosen at the target step, also when the list has changed
\* since the choice.
C30_NeverCommitsIntoFrozen ==
    [][CommitStarts =>
          /\ runs'[1].boqVersionId \in DOMAIN boqVersions'
          /\ ~boqVersions'[runs'[1].boqVersionId].is_frozen]_vars

====
